---- MODULE Spec2Model ----
(***************************************************************************)
(* A model of the streaming receiver: the single-producer/single-consumer  *)
(* audio ring (atomic_queue.c), the framed-stream demultiplexer and the    *)
(* event loop (main.c), and the decoder session with its surface pool      *)
(* (decode.c on top of mfx_stub/mfxvideo.c).                               *)
(*                                                                         *)
(* Each component has its own variables and its own specification          *)
(* (SpecRing, SpecDemux, SpecDecode, SpecMain); a specification leaves the *)
(* variables of the other components in their initial state.               *)
(***************************************************************************)
EXTENDS Integers, Sequences, FiniteSets, TLC

(***************************************************************************)
(* Bounds of the model.                                                    *)
(***************************************************************************)
\* capacity of the ring in bytes (the alloc argument of AtomicQueueCreate)
Alloc == 4
\* largest size argument of one AtomicQueueWrite / AtomicQueueRead call
MaxReq == 4
\* total number of bytes the producer offers over a behaviour
MaxOffered == 6
\* number of framed records the server sends over a behaviour
MaxRecords == 2
\* payload size of a framed record that has a payload
MaxPayload == 1
\* number of NAL units in a packet
MaxNalus == 2
\* number of frames decoded over a behaviour
MaxFrames == 4
\* number of times poll returns on its own over a behaviour
MaxActivity == 2
\* number of window events one dispatch delivers
MaxEvents == 2
MaxWrites == 2
MaxKeys == 3
MaxNalBytes == 5
MaxCode == 8
MaxPacketBytes == 9
MaxUnits == 2

(***************************************************************************)
(* Helpers.                                                                *)
(***************************************************************************)
IsPrefix(s, t) == Len(s) <= Len(t) /\ SubSeq(t, 1, Len(s)) = s

Take(s, n) == SubSeq(s, 1, n)

Drop(s, n) == SubSeq(s, n + 1, Len(s))

\* atomic_queue.c: static size_t min(size_t a, size_t b)
min(a, b) == IF a < b THEN a ELSE b

\* atomic_queue.c: static size_t min3(size_t a, size_t b, size_t c)
min3(a, b, c) == min(min(a, b), c)

(***************************************************************************)
(* The audio ring: struct AtomicQueue and the two threads that use it.     *)
(***************************************************************************)
VARIABLES
  q_buffer,   \* atomic_queue->buffer: [0 .. alloc-1] -> byte
  q_read,     \* atomic_queue->read, owned by the consumer
  q_write,    \* atomic_queue->write, owned by the producer
  q_size,     \* atomic_queue->size, the atomic byte count
  w_pc,       \* producer position inside AtomicQueueWrite
  w_buf,      \* the buffer argument of the running write
  w_capacity, \* the local capacity of the running write
  w_offset,   \* the local offset of the running write
  r_pc,       \* consumer position inside AtomicQueueRead
  r_n,        \* the size argument of the running read
  r_avail,    \* the local avail of the running read
  r_offset,   \* the local offset of the running read
  r_out,      \* the bytes the running read copied to its output buffer
  passed,     \* history: concatenation of the buffers a_i passed to writes
  accepted,   \* history: concatenation of the parts of a_i the writes took
  got,        \* history: concatenation of the blocks b_j reads returned
  bytesW,     \* history: total bytes transferred by completed writes
  bytesR,     \* history: total bytes transferred by completed reads
  w_touched,  \* history: the offsets in the region the last write stored to
  r_touched,  \* history: the offsets in the region the last read loaded from
  e_buf,      \* the engine buffer of the audio callback: requested bytes
  q_stride    \* history: the largest stride that divides the capacity and
              \* the size of every write and read request so far

ringVars == <<q_buffer, q_read, q_write, q_size, w_pc, w_buf, w_capacity,
              w_offset, r_pc, r_n, r_avail, r_offset, r_out, passed,
              accepted, got, bytesW, bytesR, w_touched, r_touched, e_buf,
              q_stride>>

\* a byte of the malloc'ed region that was never written
Uninit == 0

\* AtomicQueueCreate: buffer malloc'ed, read = write = 0, size = 0
RingInit ==
  /\ q_buffer = [i \in 0 .. Alloc - 1 |-> Uninit]
  /\ q_read = 0
  /\ q_write = 0
  /\ q_size = 0
  /\ w_pc = "idle"
  /\ w_buf = <<>>
  /\ w_capacity = 0
  /\ w_offset = 0
  /\ r_pc = "idle"
  /\ r_n = 0
  /\ r_avail = 0
  /\ r_offset = 0
  /\ r_out = <<>>
  /\ passed = <<>>
  /\ accepted = <<>>
  /\ got = <<>>
  /\ bytesW = 0
  /\ bytesR = 0
  /\ w_touched = {}
  /\ r_touched = {}
  /\ e_buf = <<>>
  /\ q_stride = Alloc

\* a byte of the engine buffer as the engine hands it over
Stale == -1

\* a mutation of Memset: nothing is stored
BadMemset(buf, at, value, n) == buf

\* memset(buf + at, value, n)
Memset(buf, at, value, n) ==
  [k \in 1 .. Len(buf) |-> IF at < k /\ k <= at + n THEN value ELSE buf[k]]

\* the offsets memcpy touches in the region: n bytes from offset at
MemcpyRange(at, n) == {at + k : k \in 0 .. n - 1}

\* memcpy(dst + at, src + from, n) into the ring region
MemcpyIn(region, at, src, from, n) ==
  [i \in DOMAIN region |->
     IF at <= i /\ i < at + n THEN src[from + (i - at) + 1] ELSE region[i]]

\* memcpy(dst, region + at, n) out of the ring region
MemcpyOut(region, at, n) == [k \in 1 .. n |-> region[at + k - 1]]

\* the largest stride that divides stride and size
CommonStride(stride, size) ==
  CHOOSE d \in 1 .. stride :
    /\ stride % d = 0 /\ size % d = 0
    /\ \A e \in d + 1 .. stride : ~(stride % e = 0 /\ size % e = 0)

\* a mutation of WriteCapacity: one byte of the region is kept free
WriteBadCapacity(size) == IF size < Alloc THEN Alloc - size - 1 ELSE 0

\* AtomicQueueWrite: capacity = alloc - atomic_load(&size)
WriteCapacity(size) == Alloc - size

\* a mutation of WriteHeadSize: the end of the region is not looked at
WriteBadHeadSize(size, capacity, tail_size) == min(size, capacity)

\* AtomicQueueWrite, first memcpy: min3(size, capacity, tail_size)
WriteHeadSize(size, capacity, tail_size) == min3(size, capacity, tail_size)

\* AtomicQueueWrite, second memcpy: min(size - copy_size, capacity - copy_size)
\* (neither difference wraps: copy_size <= size and copy_size <= capacity)
WriteBadWrapSize(size, capacity, copy_size) == size - copy_size

WriteWrapSize(size, capacity, copy_size) ==
  min(size - copy_size, capacity - copy_size)

\* AtomicQueueRead, first memcpy: min3(size, avail, tail_size)
ReadHeadSize(size, avail, tail_size) == min3(size, avail, tail_size)

\* AtomicQueueRead, second memcpy: min(size - copy_size, avail - copy_size)
ReadWrapSize(size, avail, copy_size) == min(size - copy_size, avail - copy_size)

\* AtomicQueueRead, the read index after the transfer
ReadBadAdvance(read, offset) == read

ReadAdvance(read, offset) == (read + offset) % Alloc

\* The producer (AudioContextDecode) enters AtomicQueueWrite with a buffer of
\* n fresh bytes and loads the byte count (acquire).
WriteLoad(n) ==
  /\ w_pc = "idle"
  /\ Len(passed) + n <= MaxOffered
  /\ w_buf' = [k \in 1 .. n |-> Len(passed) + k]
  /\ passed' = passed \o [k \in 1 .. n |-> Len(passed) + k]
  /\ w_capacity' = WriteCapacity(q_size)
  /\ w_pc' = "loaded"
  /\ q_stride' = CommonStride(q_stride, n)
  /\ UNCHANGED <<q_buffer, q_read, q_write, q_size, w_offset, r_pc, r_n,
                 r_avail, r_offset, r_out, accepted, got, bytesW, bytesR,
                 w_touched, r_touched, e_buf>>

\* The two memcpy calls of AtomicQueueWrite and the update of the write index.
WriteCopy ==
  /\ w_pc = "loaded"
  /\ LET size == Len(w_buf)
         tail_size == Alloc - q_write
         head == WriteHeadSize(size, w_capacity, tail_size)
         wrap == WriteWrapSize(size, w_capacity, head)
         b1 == MemcpyIn(q_buffer, q_write, w_buf, 0, head)
         b2 == MemcpyIn(b1, 0, w_buf, head, wrap)
     IN /\ q_buffer' = b2
        /\ w_offset' = head + wrap
        /\ q_write' = (q_write + head + wrap) % Alloc
        /\ w_touched' = MemcpyRange(q_write, head) \cup MemcpyRange(0, wrap)
  /\ w_pc' = "copied"
  /\ UNCHANGED <<q_read, q_size, w_buf, w_capacity, r_pc, r_n, r_avail,
                 r_offset, r_out, passed, accepted, got, bytesW, bytesR,
                 r_touched, e_buf,
                 q_stride>>

\* atomic_fetch_add(&size, offset, release); return offset
WritePublish ==
  /\ w_pc = "copied"
  /\ q_size' = q_size + w_offset
  /\ accepted' = accepted \o Take(w_buf, w_offset)
  /\ bytesW' = bytesW + w_offset
  /\ w_pc' = "idle"
  /\ UNCHANGED <<q_buffer, q_read, q_write, w_buf, w_capacity, w_offset, r_pc,
                 r_n, r_avail, r_offset, r_out, passed, got, bytesR, w_touched,
                 r_touched, e_buf,
                 q_stride>>

\* The consumer (the audio callback) enters AtomicQueueRead asking for n
\* bytes and loads the byte count (acquire).
ReadLoad(n) ==
  /\ r_pc = "idle"
  /\ r_n' = n
  /\ r_avail' = q_size
  /\ e_buf' = [k \in 1 .. n |-> Stale]
  /\ r_pc' = "loaded"
  /\ q_stride' = CommonStride(q_stride, n)
  /\ UNCHANGED <<q_buffer, q_read, q_write, q_size, w_pc, w_buf, w_capacity,
                 w_offset, r_offset, r_out, passed, accepted, got, bytesW,
                 bytesR, w_touched, r_touched>>

\* The two memcpy calls of AtomicQueueRead and the update of the read index.
ReadCopy ==
  /\ r_pc = "loaded"
  /\ LET tail_size == Alloc - q_read
         head == ReadHeadSize(r_n, r_avail, tail_size)
         wrap == ReadWrapSize(r_n, r_avail, head)
     IN /\ r_out' = MemcpyOut(q_buffer, q_read, head) \o MemcpyOut(q_buffer, 0, wrap)
        /\ r_offset' = head + wrap
        /\ q_read' = ReadAdvance(q_read, head + wrap)
        /\ r_touched' = MemcpyRange(q_read, head) \cup MemcpyRange(0, wrap)
        /\ e_buf' = [k \in 1 .. Len(e_buf) |->
                       IF k <= head + wrap THEN r_out'[k] ELSE e_buf[k]]
  /\ r_pc' = "copied"
  /\ UNCHANGED <<q_buffer, q_write, q_size, w_pc, w_buf, w_capacity, w_offset,
                 r_n, r_avail, passed, accepted, got, bytesW, bytesR,
                 w_touched,
                 q_stride>>

\* atomic_fetch_sub(&size, offset, release); return offset
ReadPublish ==
  /\ r_pc = "copied"
  /\ q_size' = q_size - r_offset
  /\ got' = got \o r_out
  /\ bytesR' = bytesR + r_offset
  /\ r_pc' = "returned"
  /\ UNCHANGED <<q_buffer, q_read, q_write, w_pc, w_buf, w_capacity, w_offset,
                 r_n, r_avail, r_offset, r_out, passed, accepted, bytesW,
                 w_touched, r_touched, e_buf,
                 q_stride>>

\* The audio callback after AtomicQueueRead has returned available: the
\* memset of the tail when available < requested, and the buffer queued.
OnStreamProcess ==
  /\ r_pc = "returned"
  /\ e_buf' = IF r_offset < r_n
              THEN Memset(e_buf, r_offset, 0, r_n - r_offset) ELSE e_buf
  /\ r_pc' = "idle"
  /\ UNCHANGED <<q_buffer, q_read, q_write, q_size, w_pc, w_buf, w_capacity,
                 w_offset, r_n, r_avail, r_offset, r_out, passed, accepted,
                 got, bytesW, bytesR, w_touched, r_touched,
                 q_stride>>


(***************************************************************************)
(* The framed-stream demultiplexer: struct Proto, the receive buffer and   *)
(* DemuxProtoStream.                                                       *)
(***************************************************************************)
VARIABLES
  wire,         \* bytes the server has sent and the socket has not delivered
  sent,         \* history: the records the server emitted, in order
  d_buf,        \* context->buffer: the logical bytes [0, size)
  d_result,     \* what the last DemuxProtoStream call returned
  dispatched,   \* history: payloads handed to HandleVideoStream, in order
  processed,    \* history: payload sizes of the records the loop took
  received,     \* history: every byte appended to the receive buffer
  consumed,     \* history: total of the BufferDiscard requests
  discard_ok,   \* history: every BufferDiscard request was <= buffer size
  was_partial   \* history: some call returned with part of a record buffered

demuxVars == <<wire, sent, d_buf, d_result, dispatched, processed, received,
               consumed, discard_ok, was_partial>>

\* sizeof(struct Proto): packed {u8 type, u8 flags, u64 latency, u32 size}
ProtoHeaderSize == 14

PROTO_TYPE_MISC == 1

PROTO_TYPE_VIDEO == 2

PROTO_TYPE_AUDIO == 3

PROTO_FLAG_KEYFRAME == 1

\* little-endian bytes of a value, least significant first
RECURSIVE LittleEndian(_, _)
LittleEndian(value, nbytes) ==
  IF nbytes = 0 THEN <<>>
  ELSE <<value % 256>> \o LittleEndian(value \div 256, nbytes - 1)

\* the bytes of one record as the server lays them out on the wire
EncodeProto(rec) ==
  <<rec.type, rec.flags>> \o LittleEndian(rec.latency, 8)
    \o LittleEndian(Len(rec.payload), 4) \o rec.payload

\* proto->type of the record at the front of the buffer
ProtoType(buf) == buf[1]

\* proto->size of the record at the front of the buffer (u32, little endian)
ProtoSize(buf) == buf[11] + 256 * buf[12] + 65536 * buf[13] + 16777216 * buf[14]

\* proto->data: the size payload bytes after the header (a byte past the
\* logical size of the buffer reads as a byte never written)
ProtoData(buf) ==
  [k \in 1 .. ProtoSize(buf) |->
     IF ProtoHeaderSize + k <= Len(buf) THEN buf[ProtoHeaderSize + k] ELSE Uninit]

\* BufferDiscard(buffer, n): shift the tail down and decrement the size
BufferDiscard(buf, n) == Drop(buf, n)

\* DemuxProtoStream: the two early returns of the again: loop negated, that
\* is, a complete record is at the front of the buffer
HasBadCompleteRecord(buf) == Len(buf) >= ProtoHeaderSize

HasCompleteRecord(buf) ==
  /\ Len(buf) >= ProtoHeaderSize
  /\ Len(buf) >= ProtoHeaderSize + ProtoSize(buf)

\* DemuxProtoStream: the argument of BufferDiscard for a record
BadDiscardRequest(buf) == ProtoHeaderSize

DiscardRequest(buf) == ProtoHeaderSize + ProtoSize(buf)

\* The again: loop of DemuxProtoStream on the local state st; the failAt-th
\* video record of this call is the one DecodeContextDecode rejects (0: none).
RECURSIVE DemuxLoop(_, _, _)
DemuxLoop(st, nvideo, failAt) ==
  IF ~HasCompleteRecord(st.buf) THEN [st EXCEPT !.result = "ok"]
  ELSE
    LET isVideo == ProtoType(st.buf) = PROTO_TYPE_VIDEO
        request == DiscardRequest(st.buf)
        handled == [st EXCEPT !.dispatched =
                      IF isVideo THEN Append(@, ProtoData(st.buf)) ELSE @]
    IN IF isVideo /\ failAt = nvideo + 1
       THEN [handled EXCEPT !.result = "fail"]
       ELSE DemuxLoop(
              [handled EXCEPT
                 !.buf = BufferDiscard(@, request),
                 !.processed = Append(@, ProtoSize(st.buf)),
                 !.consumed = @ + request,
                 !.discard_ok = @ /\ request <= Len(st.buf)],
              IF isVideo THEN nvideo + 1 ELSE nvideo, failAt)

DemuxInit ==
  /\ wire = <<>>
  /\ sent = <<>>
  /\ d_buf = <<>>
  /\ d_result = "none"
  /\ dispatched = <<>>
  /\ processed = <<>>
  /\ received = <<>>
  /\ consumed = 0
  /\ discard_ok = TRUE
  /\ was_partial = FALSE

\* The server emits one more record: its bytes enter the transport.
ServerSend(type, size) ==
  /\ d_result # "fail"
  /\ Len(sent) < MaxRecords
  /\ LET serial == Len(sent) + 1
         rec == [type |-> type,
                 flags |-> IF serial = 1 THEN PROTO_FLAG_KEYFRAME ELSE 0,
                 latency |-> serial,
                 payload |-> [k \in 1 .. size |-> 16 * serial + k]]
     IN /\ sent' = Append(sent, rec)
        /\ wire' = wire \o EncodeProto(rec)
  /\ UNCHANGED <<d_buf, d_result, dispatched, processed, received, consumed,
                 discard_ok, was_partial>>

\* DemuxProtoStream when BufferAppendFrom read k > 0 bytes.
DemuxProtoStream(k, failAt) ==
  /\ d_result # "fail"
  /\ k \in 1 .. Len(wire)
  /\ LET st == DemuxLoop([buf |-> d_buf \o Take(wire, k),
                          dispatched |-> dispatched,
                          processed |-> processed,
                          consumed |-> consumed,
                          discard_ok |-> discard_ok,
                          result |-> "ok"], 0, failAt)
     IN /\ d_buf' = st.buf
        /\ dispatched' = st.dispatched
        /\ processed' = st.processed
        /\ consumed' = st.consumed
        /\ discard_ok' = st.discard_ok
        /\ d_result' = st.result
        /\ was_partial' = (was_partial \/ (st.result = "ok" /\ st.buf # <<>>))
  /\ received' = received \o Take(wire, k)
  /\ wire' = Drop(wire, k)
  /\ UNCHANGED sent

\* DemuxProtoStream when BufferAppendFrom returned -1 (read error) or 0
\* (the server closed the connection): nothing is appended, false returned.
DemuxProtoStreamNoData ==
  /\ d_result # "fail"
  /\ d_result' = "fail"
  /\ UNCHANGED <<wire, sent, d_buf, dispatched, processed, received, consumed,
                 discard_ok, was_partial>>

(***************************************************************************)
(* The decoder: DecodeContextDecode over the MFX stand-in of mfx_stub.      *)
(* A packet is the sequence of the types of its NAL units; the parsing of   *)
(* the NAL payloads and the upload to the accelerator are left to the       *)
(* environment, which may let them fail.                                    *)
(***************************************************************************)
VARIABLES
  surfaces_ok,           \* decode_context->surfaces is not NULL
  locked,                \* surfaces[i]->locked
  global_frame_counter,  \* session->global_frame_counter
  local_frame_counter,   \* session->local_frame_counter
  ppb,                   \* session->ppb: CurrPic and ReferenceFrames[0]
  spb_ref00,             \* session->spb.RefPicList[0][0]
  dec_status,            \* "running", "failed" (returned false), "crashed"
                         \* or "closed" (DecodeContextDestroy has run)
  frames,                \* history: one record per frame the stub decoded
  shows,                 \* history: one record per WindowShowFrame that succeeded
  pps_parsed,            \* history: MFXVideoDECODE_DecodeHeader came to a PPS
  inits,                 \* history: pps_parsed at every MFXVideoDECODE_Init
  last_call,             \* history of the last packet: had it a NAL unit of
                         \* a type nothing handles, did its upload fail, the
                         \* counters before it, where the process faulted
  free_calls,            \* history: calls of allocator.Free
  destroyed,             \* history: SurfaceDestroy calls per surface
  va_log                 \* history: the accelerator calls of the last
                         \* UploadAndDecode, the step of it that failed

decodeVars == <<surfaces_ok, locked, global_frame_counter, local_frame_counter,
                ppb, spb_ref00, dec_status, frames, shows, pps_parsed, inits,
                last_call, free_calls, destroyed, va_log>>

NumFrameSuggested == 3
TRAIL_R == 1
IDR_W_RADL == 19
SPS_NUT == 33
PPS_NUT == 34
AUD_NUT == 35
VA_INVALID_SURFACE == -1
RefPicUnused == 255
NoSurface == -1
VaSurfaceBase == 64

NalUnitType == {TRAIL_R, IDR_W_RADL, SPS_NUT, PPS_NUT, AUD_NUT}

\* surfaces[i]->va_surface_id: the ids vaCreateSurfaces gave, all different
va_surface_id(i) == VaSurfaceBase + i

\* a mutation of IsSlice: an access unit delimiter is taken for a slice
BadIsSlice(nal) == nal = TRAIL_R \/ nal = IDR_W_RADL \/ nal = AUD_NUT

IsSlice(nal) == nal = TRAIL_R \/ nal = IDR_W_RADL

RECURSIVE NumSlices(_)
NumSlices(nalus) ==
  IF nalus = <<>> THEN 0
  ELSE (IF IsSlice(Head(nalus)) THEN 1 ELSE 0) + NumSlices(Tail(nalus))

\* every packet of at most n NAL units
RECURSIVE PacketsUpTo(_)
PacketsUpTo(n) ==
  IF n = 0 THEN {<<>>}
  ELSE LET shorter == PacketsUpTo(n - 1)
       IN  shorter \cup {Append(p, t) : p \in shorter, t \in NalUnitType}

\* LENGTH(session->ppb.ReferenceFrames), LENGTH(session->spb.RefPicList[i])
NumReferenceFrames == 15

\* LENGTH(session->spb.RefPicList)
NumRefPicLists == 2

\* MFXVideoDECODE_DecodeHeader came to case PPS_NUT
HasPps(nalus) == \E k \in 1 .. Len(nalus) : nalus[k] = PPS_NUT

\* MFXVideoDECODE_DecodeHeader: what is left of the bitstream for the decode.
\* It returns at the first PPS with bs->Data moved past it, and at the end
\* of the packet, with bs->Data where it was, when there is none.
RECURSIVE DecodeHeaderRest(_)
DecodeHeaderRest(nalus) ==
  IF \A k \in 1 .. Len(nalus) : nalus[k] # PPS_NUT THEN nalus
  ELSE IF Head(nalus) = PPS_NUT THEN Tail(nalus)
  ELSE DecodeHeaderRest(Tail(nalus))

\* a mutation of MidCurrent: the surface after the one the counter names
BadMidCurrent(global) == (global + 1) % NumFrameSuggested

\* session->mids[session->global_frame_counter % session->mids_count]
MidCurrent(global) == global % NumFrameSuggested

\* a mutation of MidPrev: the current surface taken as the reference
BadMidPrev(global) == global % NumFrameSuggested

\* session->mids[(session->global_frame_counter - 1) % session->mids_count]
MidPrev(global) == (global - 1) % NumFrameSuggested

\* MFXInit and DecodeContextCreate: a zeroed session, no surfaces yet
DecodeInit ==
  /\ surfaces_ok = FALSE
  /\ locked = [i \in 0 .. NumFrameSuggested - 1 |-> FALSE]
  /\ global_frame_counter = 0
  /\ local_frame_counter = 0
  /\ ppb = [curr_id |-> 0, curr_poc |-> 0, ref0_id |-> 0, ref0_poc |-> 0]
  /\ spb_ref00 = 0
  /\ dec_status = "running"
  /\ frames = <<>>
  /\ shows = <<>>
  /\ pps_parsed = FALSE
  /\ inits = <<>>
  /\ last_call = [other |-> FALSE, upload_failed |-> FALSE, global |-> 0,
                  local |-> 0, site |-> "none"]
  /\ free_calls = 0
  /\ destroyed = [i \in 0 .. NumFrameSuggested - 1 |-> 0]
  /\ va_log = [failed |-> 0, ok |-> TRUE, calls |-> <<>>]

\* a mutation of LocalAtSlice: an IDR slice leaves the counter as it was
BadLocalAtSlice(nal, local) == local

\* if (nal_unit_type == IDR_W_RADL) session->local_frame_counter = 0;
LocalAtSlice(nal, local) == IF nal = IDR_W_RADL THEN 0 ELSE local

\* the parameter blocks as the stub fills them for one slice NAL, before the
\* upload: CurrPic, the invalidated references, then reference slot 0 when
\* the local counter is not zero
SliceParams(s, nal) ==
  LET local == LocalAtSlice(nal, s.local)
      cur   == [s.ppb EXCEPT !.curr_id = va_surface_id(MidCurrent(s.global)),
                             !.curr_poc = local,
                             !.ref0_id = VA_INVALID_SURFACE]
      refs  == [i \in 0 .. NumReferenceFrames - 1 |-> VA_INVALID_SURFACE]
      list  == [i \in 0 .. NumRefPicLists - 1 |->
                 [j \in 0 .. NumReferenceFrames - 1 |-> RefPicUnused]]
  IN  IF local # 0
      THEN [s EXCEPT !.local = local,
                     !.ppb = [cur EXCEPT !.ref0_id = va_surface_id(MidPrev(s.global)),
                                         !.ref0_poc = local - 1],
                     !.ref00 = 0,
                     !.refs = [refs EXCEPT ![0] = va_surface_id(MidPrev(s.global))],
                     !.list = [list EXCEPT ![0][0] = 0]]
      ELSE [s EXCEPT !.local = local, !.ppb = cur, !.ref00 = RefPicUnused,
                     !.refs = refs, !.list = list]

\* MFXVideoDECODE_DecodeFrameAsync over the NAL units left in the bitstream:
\* everything but a slice is skipped, every slice is decoded as one frame.
\* failAt names the slice of this call at which UploadAndDecode fails
\* (0: at none).  s.out is the surface *surface_out names, NoSurface while it
\* is still NULL.
\* the accelerator calls of UploadAndDecode in program order: the three
\* buffers, then the picture
VaSteps ==
  << [op |-> "vaCreateBuffer", buf |-> "ppb_id"],
     [op |-> "vaCreateBuffer", buf |-> "spb_id"],
     [op |-> "vaCreateBuffer", buf |-> "sdb_id"],
     [op |-> "vaBeginPicture", buf |-> "none"],
     [op |-> "vaRenderPicture", buf |-> "none"],
     [op |-> "vaEndPicture", buf |-> "none"] >>

\* a mutation of Rollback: the buffers are destroyed in the order they were
\* created in
BadRollback(created) ==
  [i \in 1 .. created |-> [op |-> "vaDestroyBuffer", buf |-> VaSteps[i].buf]]

\* the labels rollback_sdb_id, rollback_spb_id, rollback_ppb_id, each falling
\* through to the next, and the three vaDestroyBuffer of the success path:
\* the buffers created are destroyed from the last one to the first
Rollback(created) ==
  [i \in 1 .. created |->
     [op |-> "vaDestroyBuffer", buf |-> VaSteps[created + 1 - i].buf]]

\* UploadAndDecode when its call number failStep returns an error (0: none
\* does): the calls that succeeded, then the vaDestroyBuffer calls
UploadAndDecode(failStep) ==
  LET done    == IF failStep = 0 THEN Len(VaSteps) ELSE failStep - 1
      created == IF done < 3 THEN done ELSE 3
  IN  [failed |-> failStep,
       ok |-> failStep = 0,
       calls |-> SubSeq(VaSteps, 1, done) \o Rollback(created)]

\* a mutation of UploadFailed: the counters move on as after a success
BadUploadFailed(p) ==
  [p EXCEPT !.status = "MFX_ERR_DEVICE_FAILED",
            !.global = p.global + 1, !.local = p.local + 1]

\* if (!UploadAndDecode(session, &nalu)) return MFX_ERR_DEVICE_FAILED;
UploadFailed(p) == [p EXCEPT !.status = "MFX_ERR_DEVICE_FAILED"]

RECURSIVE DecodeFrameAsync(_, _, _)
DecodeFrameAsync(s, nalus, failAt) ==
  IF nalus = <<>> THEN s
  ELSE IF ~IsSlice(Head(nalus)) THEN DecodeFrameAsync(s, Tail(nalus), failAt)
  ELSE
    LET p == SliceParams(s, Head(nalus))
    IN  IF failAt = s.nslice + 1
        THEN UploadFailed(p)
        ELSE DecodeFrameAsync(
               [p EXCEPT !.global = p.global + 1,
                         !.local = p.local + 1,
                         !.nslice = p.nslice + 1,
                         !.out = MidCurrent(s.global),
                         !.frames = Append(p.frames,
                            [type |-> Head(nalus),
                             out |-> MidCurrent(s.global),
                             curr_poc |-> p.ppb.curr_poc,
                             ref0_id |-> p.ppb.ref0_id,
                             ref0_poc |-> p.ppb.ref0_poc,
                             ref00 |-> p.ref00,
                             refs |-> p.refs,
                             list |-> p.list,
                             global |-> p.global + 1,
                             local |-> p.local + 1])],
               Tail(nalus), failAt)

\* GetFreeSurface: the first surface that is not locked; NumFrameSuggested
\* stands for the NULL that ends the array
GetFreeSurface(lk) ==
  IF \A i \in 0 .. NumFrameSuggested - 1 : lk[i] THEN NumFrameSuggested
  ELSE CHOOSE i \in 0 .. NumFrameSuggested - 1 :
         /\ ~lk[i]
         /\ \A j \in 0 .. i - 1 : lk[j]

\* a mutation of UnlockAllSurfaces: no flag is cleared
BadUnlockAllSurfaces(lk, keep_locked) == lk

\* UnlockAllSurfaces: every flag but the one of keep_locked is cleared, and
\* the flag of keep_locked is left as it was
UnlockAllSurfaces(lk, keep_locked) ==
  [i \in 0 .. NumFrameSuggested - 1 |-> IF i = keep_locked THEN lk[i] ELSE FALSE]

\* what the environment lets fail during one packet
Faults(init, slices) ==
  {<<"none", 0, 0>>, <<"show", 0, 0>>}
    \cup (IF init THEN {<<"init", 0, 0>>} ELSE {})
    \cup {<<"upload", k, step>> : k \in 1 .. slices, step \in 1 .. Len(VaSteps)}

\* a fault is drawn only where the call it names is made: InitializeDecoder
\* while there are no surfaces, UploadAndDecode for a slice of the packet
FaultsAt(nalus) ==
  Faults(~surfaces_ok,
         NumSlices(IF surfaces_ok THEN nalus ELSE DecodeHeaderRest(nalus)))

\* the packets that can reach a decoder that is running, as long as the
\* frame counter stays within MaxFrames
Arriving ==
  IF dec_status = "running"
  THEN {nalus \in PacketsUpTo(MaxNalus) :
          global_frame_counter + NumSlices(nalus) <= MaxFrames}
  ELSE {}

\* DecodeContextDecode for a read that completes one packet, the body of
\* its again: loop.  A read that completes several packets runs this body
\* once for each of them, in order, and a read that completes none returns
\* true and changes nothing.
DecodeContextDecode(nalus, fault) ==
  /\ dec_status = "running"
  /\ global_frame_counter + NumSlices(nalus) <= MaxFrames
  /\ LET bs      == IF surfaces_ok THEN nalus ELSE DecodeHeaderRest(nalus)
         surface == GetFreeSurface(locked)
         lk1     == [locked EXCEPT ![surface] = TRUE]
         s0      == [global |-> global_frame_counter,
                     local |-> local_frame_counter,
                     ppb |-> ppb, ref00 |-> spb_ref00, frames |-> frames,
                     refs |-> <<>>, list |-> <<>>,
                     out |-> NoSurface, status |-> "MFX_ERR_NONE", nslice |-> 0]
         r       == DecodeFrameAsync(s0, bs,
                                     IF fault[1] = "upload" THEN fault[2] ELSE 0)
         lk2     == UnlockAllSurfaces(lk1, r.out)
         seen    == pps_parsed \/ (~surfaces_ok /\ HasPps(nalus))
         site    == IF ~surfaces_ok /\ fault[1] = "init" THEN "none"
                    ELSE IF surface = NumFrameSuggested THEN "GetFreeSurface"
                    ELSE IF r.status = "MFX_ERR_NONE" /\ r.out = NoSurface
                    THEN "surface_out"
                    ELSE "none"
     IN  /\ last_call' = [other |-> \E k \in 1 .. Len(nalus) : nalus[k] = AUD_NUT,
                          upload_failed |-> r.status = "MFX_ERR_DEVICE_FAILED",
                          global |-> global_frame_counter,
                          local |-> local_frame_counter, site |-> site]
         /\ UNCHANGED <<free_calls, destroyed>>
         /\ va_log' = IF site = "GetFreeSurface" \/ (~surfaces_ok /\ fault[1] = "init")
                       THEN va_log
                       ELSE IF r.status = "MFX_ERR_DEVICE_FAILED"
                       THEN UploadAndDecode(fault[3])
                       ELSE IF r.nslice > 0 THEN UploadAndDecode(0)
                       ELSE va_log
         /\ IF ~surfaces_ok /\ fault[1] = "init"
            THEN \* InitializeDecoder returned false
                 /\ dec_status' = "failed"
                 /\ pps_parsed' = seen
                 /\ UNCHANGED <<surfaces_ok, locked, global_frame_counter,
                                local_frame_counter, ppb, spb_ref00, frames, shows,
                                inits>>
            ELSE IF surface = NumFrameSuggested
            THEN \* GetFreeSurface wrote through the NULL that ends the array
                 /\ dec_status' = "crashed"
                 /\ surfaces_ok' = TRUE
                 /\ pps_parsed' = seen
                 /\ inits' = IF surfaces_ok THEN inits ELSE Append(inits, seen)
                 /\ UNCHANGED <<locked, global_frame_counter, local_frame_counter,
                                ppb, spb_ref00, frames, shows>>
            ELSE /\ surfaces_ok' = TRUE
                 /\ pps_parsed' = seen
                 /\ inits' = IF surfaces_ok THEN inits ELSE Append(inits, seen)
                 /\ global_frame_counter' = r.global
                 /\ local_frame_counter' = r.local
                 /\ ppb' = r.ppb
                 /\ spb_ref00' = r.ref00
                 /\ frames' = r.frames
                 /\ IF r.status # "MFX_ERR_NONE"
                    THEN /\ dec_status' = "failed"
                         /\ locked' = lk1
                         /\ UNCHANGED shows
                    ELSE IF r.out = NoSurface
                    THEN \* surface_out is still NULL: surface_out->Data.MemId
                         \* reads through a null pointer and the process faults
                         /\ dec_status' = "crashed"
                         /\ locked' = lk1
                         /\ UNCHANGED shows
                    ELSE /\ locked' = lk2
                         /\ IF fault[1] = "show"
                            THEN dec_status' = "failed" /\ UNCHANGED shows
                            ELSE /\ dec_status' = "running"
                                 /\ shows' = Append(shows,
                                      [index |-> r.out, decoded |-> r.nslice,
                                       global |-> r.global, local |-> r.local])

\* DecodeContextDecode when BufferAppendFrom returned -1 or 0
DecodeContextDecodeNoData ==
  /\ dec_status = "running"
  /\ dec_status' = "failed"
  /\ UNCHANGED <<surfaces_ok, locked, global_frame_counter, local_frame_counter,
                 ppb, spb_ref00, frames, shows, pps_parsed, inits, last_call,
                 free_calls, destroyed, va_log>>

\* OnAllocatorFree, called n times: every call goes through the surfaces of
\* the pool and destroys each of them, then frees the array
OnAllocatorFree(n) ==
  /\ free_calls' = free_calls + n
  /\ destroyed' = [i \in 0 .. NumFrameSuggested - 1 |-> destroyed[i] + n]

\* DecodeContextDestroy: MFXClose, whose loop over the mids_count memory ids
\* calls allocator.Free with the whole pool each time
DecodeContextDestroy ==
  /\ dec_status \in {"running", "failed"}
  /\ dec_status' = "closed"
  /\ IF surfaces_ok
     THEN OnAllocatorFree(NumFrameSuggested)
     ELSE UNCHANGED <<free_calls, destroyed>>
  /\ UNCHANGED <<surfaces_ok, locked, global_frame_counter, local_frame_counter,
                 ppb, spb_ref00, frames, shows, pps_parsed, inits, last_call,
                 va_log>>

(***************************************************************************)
(* The process: main, its event loop, the signal handler and the window     *)
(* event handlers.  The main thread moves through the places of main; the   *)
(* signal handler runs between any two of its steps.                        *)
(***************************************************************************)
VARIABLES
  m_pc,           \* where the main thread is
  g_signal,       \* the volatile sig_atomic_t g_signal
  no_input,       \* --no-input was given: the window has no event handlers
  handlers,       \* signal() has installed OnSignal for SIGINT and SIGTERM
  revents,        \* pfds[0].revents and pfds[1].revents of the last poll
  was_closed,     \* window->was_closed
  context_alive,  \* ContextCreate succeeded and ContextDestroy has not run
  sock_open,      \* ConnectSocket succeeded and close(sock) has not run
  exit_status,    \* what main returned, NotExited before that
  activity,       \* history: how many times poll returned on its own
  failures,       \* history: the failures the process has met
  requests,       \* history: the shutdown requests the process has received
  polled_after,   \* history: poll was called after a forwarding failure
  peer_closed,    \* history: a read from the socket returned 0
  acquired,       \* history: the resources acquired, in order
  released,       \* history: the resources released, in order
  serviced        \* history: what the current wakeup has serviced, in order

mainVars == <<m_pc, g_signal, no_input, handlers, revents, was_closed,
              context_alive, sock_open, exit_status, activity, failures,
              requests, polled_after, peer_closed, acquired, released,
              serviced>>

SIGINT == 2
SIGABRT == 6
SIGTERM == 15
EXIT_SUCCESS == 0
EXIT_FAILURE == 1
NotExited == -1

MainInit ==
  /\ m_pc = "setup"
  /\ g_signal = 0
  /\ no_input = FALSE
  /\ handlers = FALSE
  /\ revents = <<FALSE, FALSE>>
  /\ was_closed = FALSE
  /\ context_alive = FALSE
  /\ sock_open = FALSE
  /\ exit_status = NotExited
  /\ activity = 0
  /\ failures = {}
  /\ requests = {}
  /\ polled_after = FALSE
  /\ peer_closed = FALSE
  /\ acquired = <<>>
  /\ released = <<>>
  /\ serviced = <<>>

\* OnSignal, run by the delivery of SIGINT or SIGTERM once the handlers are
\* installed.  A poll that the delivery interrupts returns -1 with EINTR,
\* which the loop answers with continue.
OnSignal(status) ==
  /\ handlers
  /\ m_pc # "exited"
  /\ g_signal' = status
  /\ requests' = requests \cup {"signal"}
  /\ m_pc' = IF m_pc = "in_poll" THEN "check" ELSE m_pc
  /\ UNCHANGED <<no_input, handlers, revents, was_closed, context_alive,
                 sock_open, exit_status, activity, failures, polled_after,
                 peer_closed, acquired, released, serviced>>

RECURSIVE Reverse(_)
Reverse(seq) ==
  IF seq = <<>> THEN <<>> ELSE Append(Reverse(Tail(seq)), Head(seq))

\* what ContextCreate acquires, in its order, when nothing fails
ContextResources(noinput, stats) ==
  (IF noinput THEN <<>> ELSE <<"input_stream">>)
    \o <<"window">>
    \o (IF stats THEN <<"overlay">> ELSE <<>>)
    \o <<"decode_context">>

\* the resources ContextCreate holds when the acquisition of `failed` fails
RECURSIVE HeldBefore(_, _)
HeldBefore(resources, failed) ==
  IF resources = <<>> \/ Head(resources) = failed THEN <<>>
  ELSE <<Head(resources)>> \o HeldBefore(Tail(resources), failed)

SetupOutcomes ==
  {"usage", "connect", "context", "input_stream", "window", "overlay",
   "decode_context", "events_fd", "signal", "ok"}

\* main up to the loop.  outcome names the first step that fails: "context"
\* is the calloc of ContextCreate, "input_stream" .. "decode_context" are the
\* later steps of ContextCreate, which roll back what it holds and return
\* NULL.
Setup(outcome, noinput, stats) ==
  /\ m_pc = "setup"
  /\ outcome = "input_stream" => ~noinput
  /\ outcome = "overlay" => stats
  /\ no_input' = noinput
  /\ failures' = IF outcome = "ok" THEN failures ELSE failures \cup {"setup"}
  /\ sock_open' = (outcome \notin {"usage", "connect"})
  /\ context_alive' = (outcome \in {"events_fd", "signal", "ok"})
  /\ handlers' = (outcome = "ok")
  /\ m_pc' = CASE outcome \in {"usage", "connect", "signal"} -> "exited"
               [] outcome \in {"context", "input_stream", "window", "overlay",
                               "decode_context"} -> "rollback_socket"
               [] outcome = "events_fd" -> "rollback_context"
               [] OTHER -> "check"
  /\ exit_status' = IF outcome \in {"usage", "connect", "signal"}
                    THEN EXIT_FAILURE ELSE exit_status
  /\ LET all  == ContextResources(noinput, stats)
         held == HeldBefore(all, outcome)
     IN  CASE outcome \in {"usage", "connect"} ->
                acquired' = <<>> /\ released' = <<>>
           [] outcome = "context" ->
                acquired' = <<"socket">> /\ released' = <<>>
           [] outcome \in {"input_stream", "window", "overlay",
                           "decode_context"} ->
                acquired' = <<"socket">> \o held /\ released' = Reverse(held)
           [] OTHER ->
                acquired' = <<"socket">> \o all /\ released' = <<>>
  /\ UNCHANGED <<g_signal, revents, was_closed, activity, requests,
                 polled_after, peer_closed, serviced>>

\* a mutation of LoopPredicate: only the two shutdown signals end the loop
BadLoopPredicate(sig) == sig # SIGINT /\ sig # SIGTERM

\* while (!g_signal)
LoopPredicate(sig) == sig = 0

LoopCheck ==
  /\ m_pc = "check"
  /\ m_pc' = IF LoopPredicate(g_signal) THEN "call_poll" ELSE "rollback_context"
  /\ UNCHANGED <<g_signal, no_input, handlers, revents, was_closed,
                 context_alive, sock_open, exit_status, activity, failures,
                 requests, polled_after, peer_closed, acquired, released,
                 serviced>>

\* the call of poll with no timeout: the thread blocks
PollEnter ==
  /\ m_pc = "call_poll"
  /\ m_pc' = "in_poll"
  /\ polled_after' = (polled_after \/ "forward" \in failures)
  /\ UNCHANGED <<g_signal, no_input, handlers, revents, was_closed,
                 context_alive, sock_open, exit_status, activity, failures,
                 requests, peer_closed, acquired, released, serviced>>

\* poll returning on its own: with an error other than EINTR, with EINTR
\* (a signal that has no handler here), or with descriptors ready
PollReturn(kind, sock_ready, events_ready) ==
  /\ m_pc = "in_poll"
  /\ activity < MaxActivity
  /\ activity' = activity + 1
  /\ CASE kind = "error" ->
            /\ m_pc' = "rollback_context"
            /\ failures' = failures \cup {"poll"}
            /\ UNCHANGED revents
       [] kind = "eintr" ->
            /\ m_pc' = "check"
            /\ UNCHANGED <<failures, revents>>
       [] OTHER ->
            /\ sock_ready \/ events_ready
            /\ m_pc' = "sock"
            /\ revents' = <<sock_ready, events_ready>>
            /\ UNCHANGED failures
  /\ serviced' = IF kind = "ready" THEN <<>> ELSE serviced
  /\ UNCHANGED <<g_signal, no_input, handlers, was_closed, context_alive,
                 sock_open, exit_status, requests, polled_after, peer_closed,
                 acquired, released>>

\* a mutation of AfterSock: the events are serviced whatever the demux said
BadAfterSock(ready, demux) == "events"

\* if (pfds[0].revents && !DemuxProtoStream(sock, context)) goto
\* rollback_context: where the main thread goes next
AfterSock(ready, demux) ==
  IF ready /\ demux # "ok" THEN "rollback_context" ELSE "events"

\* The service of the socket.  demux is what DemuxProtoStream does when it is
\* called: "ok" (true), "error" (the read or a handler failed: false) or
\* "closed" (the read returned 0: false).  The first append gives the
\* receive buffer its memory.
ServiceSock(demux) ==
  /\ m_pc = "sock"
  /\ m_pc' = AfterSock(revents[1], demux)
  /\ failures' = IF revents[1] /\ demux = "error"
                 THEN failures \cup {"demux"} ELSE failures
  /\ peer_closed' = (peer_closed \/ (revents[1] /\ demux = "closed"))
  /\ acquired' = IF revents[1] /\ \A k \in 1 .. Len(acquired) : acquired[k] # "buffer"
                 THEN Append(acquired, "buffer") ELSE acquired
  /\ serviced' = IF revents[1]
                 THEN Append(serviced, IF demux = "ok" THEN "sock_ok" ELSE "sock_fail")
                 ELSE serviced
  /\ UNCHANGED <<g_signal, no_input, handlers, revents, was_closed,
                 context_alive, sock_open, exit_status, activity, requests,
                 polled_after, released>>

WindowEvents == {"close", "forward_ok", "forward_fail"}

\* every dispatch of at most n window events
RECURSIVE BatchesUpTo(_)
BatchesUpTo(n) ==
  IF n = 0 THEN {<<>>}
  ELSE LET shorter == BatchesUpTo(n - 1)
       IN  shorter \cup {Append(b, e) : b \in shorter, e \in WindowEvents}

\* the handlers wl_display_dispatch runs, in the order of the events.
\* "close" is OnXdgToplevelClose: OnWindowClose when the window has event
\* handlers, was_closed otherwise.  "forward_ok" and "forward_fail" are a
\* focus, key, move, button or wheel event whose InputStream call returns
\* true or false; without event handlers the window does not listen to them.
RECURSIVE DispatchEvents(_, _)
DispatchEvents(st, batch) ==
  IF batch = <<>> THEN st
  ELSE
    LET e == Head(batch)
        next ==
          CASE e = "close" /\ no_input ->
                 [st EXCEPT !.closed = TRUE,
                            !.requests = st.requests \cup {"close"}]
            [] e = "close" /\ ~no_input ->
                 [st EXCEPT !.sig = SIGINT,
                            !.requests = st.requests \cup {"close"}]
            [] e = "forward_fail" /\ ~no_input ->
                 [st EXCEPT !.sig = SIGABRT,
                            !.failures = st.failures \cup {"forward"}]
            [] OTHER -> st
    IN  DispatchEvents(next, Tail(batch))

\* if (pfds[1].revents && !WindowProcessEvents(context->window))
ServiceEvents(batch, dispatch_ok) ==
  /\ m_pc = "events"
  /\ IF ~revents[2]
     THEN /\ m_pc' = "check"
          /\ UNCHANGED <<g_signal, was_closed, failures, requests>>
     ELSE LET st == DispatchEvents([sig |-> g_signal, closed |-> was_closed,
                                    failures |-> failures,
                                    requests |-> requests], batch)
          IN  /\ g_signal' = st.sig
              /\ was_closed' = st.closed
              /\ requests' = st.requests
              /\ failures' = IF dispatch_ok THEN st.failures
                             ELSE st.failures \cup {"events"}
              /\ m_pc' = IF dispatch_ok /\ ~st.closed THEN "check"
                         ELSE "rollback_context"
  /\ serviced' = IF revents[2] THEN Append(serviced, "events") ELSE serviced
  /\ UNCHANGED <<no_input, handlers, revents, context_alive, sock_open,
                 exit_status, activity, polled_after, peer_closed, acquired,
                 released>>

Holds(resource) == \E k \in 1 .. Len(acquired) : acquired[k] = resource

\* what ContextDestroy releases, in its order: the receive buffer, the decode
\* context, the overlay if there is one, the window, the input stream if
\* there is one
ContextDestroyOrder ==
  (IF Holds("buffer") THEN <<"buffer">> ELSE <<>>)
    \o <<"decode_context">>
    \o (IF Holds("overlay") THEN <<"overlay">> ELSE <<>>)
    \o <<"window">>
    \o (IF Holds("input_stream") THEN <<"input_stream">> ELSE <<>>)

\* rollback_context: ContextDestroy(context)
RollbackContext ==
  /\ m_pc = "rollback_context"
  /\ context_alive' = FALSE
  /\ released' = released \o ContextDestroyOrder
  /\ m_pc' = "rollback_socket"
  /\ UNCHANGED <<g_signal, no_input, handlers, revents, was_closed, sock_open,
                 exit_status, activity, failures, requests, polled_after,
                 peer_closed, acquired, serviced>>

\* rollback_socket: close(sock), and the exit status from g_signal
RollbackSocket ==
  /\ m_pc = "rollback_socket"
  /\ sock_open' = FALSE
  /\ released' = Append(released, "socket")
  /\ exit_status' = IF g_signal = SIGINT \/ g_signal = SIGTERM
                    THEN EXIT_SUCCESS ELSE EXIT_FAILURE
  /\ m_pc' = "exited"
  /\ UNCHANGED <<g_signal, no_input, handlers, revents, was_closed,
                 context_alive, activity, failures, requests, polled_after,
                 peer_closed, acquired, serviced>>

(***************************************************************************)
(* The input stream (input.c): the keyboard state, the HID reports built    *)
(* from it, and Drain, which writes an event to the sink.                   *)
(***************************************************************************)
VARIABLES
  key_state,   \* input_stream->key_state: the bits that are set, bit
               \* 64 * row + shift standing for key_state[row] bit shift
  button_state, \* input_stream->button_state: the bits that are set
  i_key,       \* history: code and value of the last key or button event
  i_op,        \* the last operation: "none", "keypress", "handsoff", "drain"
  i_event,     \* the bytes the last operation handed to Drain, <<>> if none
  i_pattern,   \* what the sink answered to the writes of the last Drain
  i_errno,     \* errno when the last Drain was entered
  i_written,   \* the bytes the sink accepted during the last Drain, in order
  i_result,    \* what the last operation returned
  i_stale,     \* history: keys held at the last handsoff, not pressed since
  i_handsoff   \* history: a handsoff has happened

inputVars == <<key_state, button_state, i_key, i_op, i_event, i_pattern,
               i_errno, i_written, i_result, i_stale, i_handsoff>>

UHID_INPUT2 == 12
InputDataOffset == 6
ReportSize == 8
EINTR == 4
EIO == 5
EAGAIN == 11
KEY_LEFTCTRL == 29
KEY_A == 30
KEY_S == 31
KEY_D == 32
KEY_F == 33
KEY_G == 34
KEY_H == 35
KEY_J == 36
KEY_LEFTSHIFT == 42
KEY_RIGHTSHIFT == 54
KEY_KPENTER == 96
KEY_EDIT == 176
KEY_OK == 352
BTN_LEFT == 272
BTN_RIGHT == 273
BTN_MIDDLE == 274
BTN_SIDE == 275
MouseReportSize == 7
FirstModifier == 224

\* the keys of the model: three modifiers, seven keys with a usage code and
\* one key evdev_to_hid maps to nothing
AllKeys == {KEY_LEFTCTRL, KEY_A, KEY_S, KEY_D, KEY_F, KEY_G, KEY_H, KEY_J,
            KEY_LEFTSHIFT, KEY_RIGHTSHIFT, KEY_EDIT}

\* the keys the window sends in the stateful part of the model
KeyOrder == <<KEY_LEFTCTRL, KEY_A, KEY_S, KEY_LEFTSHIFT, KEY_D>>

\* evdev_to_hid[], for the keys of the model
evdev_to_hid(code) ==
  CASE code = KEY_LEFTCTRL -> 224
    [] code = KEY_A -> 4
    [] code = KEY_S -> 22
    [] code = KEY_D -> 7
    [] code = KEY_F -> 9
    [] code = KEY_G -> 10
    [] code = KEY_H -> 11
    [] code = KEY_J -> 13
    [] code = KEY_LEFTSHIFT -> 225
    [] code = KEY_RIGHTSHIFT -> 229
    [] code = KEY_KPENTER -> 88
    [] OTHER -> 0

RECURSIVE Pow2(_)
Pow2(n) == IF n = 0 THEN 1 ELSE 2 * Pow2(n - 1)

\* byte | (1 << shift)
OrBit(byte, shift) ==
  IF (byte \div Pow2(shift)) % 2 = 1 THEN byte ELSE byte + Pow2(shift)

\* a RecordKeyCode that stores a modifier as it stores any other usage code
BadRecordKeyCode(input2, code) ==
  IF code = 0 THEN input2
  ELSE
    LET in == IF input2.size = 1
              THEN [size |-> 2, data |-> [input2.data EXCEPT ![2] = 0]]
              ELSE input2
    IN  IF in.size < ReportSize
        THEN [size |-> in.size + 1,
              data |-> [in.data EXCEPT ![in.size + 1] = code]]
        ELSE in

\* RecordKeyCode on input2 = [size, data], data[k + 1] standing for data[k]
RecordKeyCode(input2, code) ==
  IF code = 0 THEN input2
  ELSE
    LET in == IF input2.size = 1
              THEN [size |-> 2, data |-> [input2.data EXCEPT ![2] = 0]]
              ELSE input2
    IN  IF code >= FirstModifier
        THEN [in EXCEPT !.data[2] = OrBit(in.data[2], code - FirstModifier)]
        ELSE IF in.size < ReportSize
        THEN [size |-> in.size + 1,
              data |-> [in.data EXCEPT ![in.size + 1] = code]]
        ELSE in

\* the loop of InputStreamFormatKeyboard over the set bits, from the lowest
\* evdev code to the highest
RECURSIVE RecordKeys(_, _)
RecordKeys(input2, keys) ==
  IF keys = {} THEN input2
  ELSE LET code == CHOOSE c \in keys : \A d \in keys : c <= d
       IN  RecordKeys(RecordKeyCode(input2, evdev_to_hid(code)), keys \ {code})

\* input_stream->button_state & 0xff
ButtonByte(buttons) ==
  (IF 0 \in buttons THEN 1 ELSE 0) + (IF 1 \in buttons THEN 2 ELSE 0)
    + (IF 2 \in buttons THEN 4 ELSE 0)

\* InputStreamFormatKeyboard: u.input2.data of the event, 8 bytes.  The
\* event is a local of the caller, so its bytes start out as whatever the
\* stack held.
InputStreamFormatKeyboard(keys) ==
  LET start == [size |-> 1,
                data |-> [k \in 1 .. ReportSize |-> IF k = 1 THEN 1 ELSE Stale]]
      filled == RecordKeys(start, keys)
  IN  Memset(filled.data, filled.size, 0, ReportSize - filled.size)

\* the bytes Drain gets for a keyboard event: type, u.input2.size, the report
KeyboardEvent(keys) ==
  LittleEndian(UHID_INPUT2, 4) \o LittleEndian(ReportSize, 2)
    \o InputStreamFormatKeyboard(keys)

\* the bytes Drain gets from InputStreamHandsoff: sizeof(type) bytes
HandsoffEvent == LittleEndian(UHID_INPUT2, 4)

\* u.input2.data of an event handed to Drain, <<>> when the event has none
ReportOf(event) ==
  IF Len(event) <= InputDataOffset THEN <<>> ELSE Drop(event, InputDataOffset)

\* the first n keys of KeyOrder
KeysUpTo(n) == {KeyOrder[k] : k \in 1 .. min(n, Len(KeyOrder))}

\* the events Drain is run on: the keyboard events of the keys and the
\* event of a handsoff
DrainEvents ==
  {KeyboardEvent(keys) : keys \in SUBSET KeysUpTo(MaxKeys)} \cup {HandsoffEvent}

InputInit ==
  /\ key_state = {}
  /\ button_state = {}
  /\ i_key = [code |-> 0, pressed |-> FALSE]
  /\ i_op = "none"
  /\ i_event = <<>>
  /\ i_pattern = <<>>
  /\ i_errno = 0
  /\ i_written = <<>>
  /\ i_result = TRUE
  /\ i_stale = {}
  /\ i_handsoff = FALSE

\* what one write() call can answer: some bytes accepted (never more than
\* were offered), -1 with errno set, or 0, which leaves errno as it was
WriteResults ==
  {[ret |-> 1, errno |-> 0], [ret |-> 5, errno |-> 0], [ret |-> 0, errno |-> 0],
   [ret |-> -1, errno |-> EINTR], [ret |-> -1, errno |-> EIO],
   [ret |-> -1, errno |-> EAGAIN]}

\* the answers of the sink to the first writes of one Drain; once they are
\* used up the sink accepts whatever is left in one write
WritePatterns ==
  UNION {[1 .. n -> WriteResults] : n \in 0 .. MaxWrites}

\* the patterns the handlers of the stateful part are run with: a sink that
\* takes everything, one that is slow and interrupted, and two that fail
HandlerPatterns ==
  {<<>>,
   <<[ret |-> 5, errno |-> 0], [ret |-> -1, errno |-> EINTR]>>,
   <<[ret |-> -1, errno |-> EIO]>>,
   <<[ret |-> 1, errno |-> 0], [ret |-> -1, errno |-> EIO]>>}

\* a Drain that gives up on EINTR as on any other error
BadDrainRetry(err) == FALSE

\* the test after an unsuccessful write: retry when errno is EINTR
DrainRetry(err) == err = EINTR

\* the loop of Drain: rest is what is still to be written, written what the
\* sink has accepted so far, err the current errno
RECURSIVE DrainLoop(_, _, _, _)
DrainLoop(rest, pattern, written, err) ==
  IF rest = <<>> THEN [written |-> written, result |-> TRUE]
  ELSE
    LET w == IF pattern = <<>> THEN [ret |-> Len(rest), errno |-> err]
             ELSE Head(pattern)
        later == IF pattern = <<>> THEN <<>> ELSE Tail(pattern)
        n == min(w.ret, Len(rest))
        e == IF w.ret < 0 THEN w.errno ELSE err
    IN  IF w.ret > 0
        THEN DrainLoop(Drop(rest, n), later, written \o Take(rest, n), err)
        ELSE IF DrainRetry(e)
        THEN DrainLoop(rest, later, written, e)
        ELSE [written |-> written, result |-> FALSE]

Drain(data, pattern, err) == DrainLoop(data, pattern, <<>>, err)

\* InputStreamFormatKeyboard applied to the current keyboard state
FormatKeyboard ==
  /\ i_op = "none"
  /\ i_op' = "format"
  /\ i_event' = KeyboardEvent(key_state)
  /\ UNCHANGED <<key_state, button_state, i_key, i_pattern, i_errno, i_written,
                 i_result, i_stale, i_handsoff>>

\* Drain applied to an event
DrainCall(data, pattern, err) ==
  LET d == Drain(data, pattern, err)
  IN  /\ i_op = "none"
      /\ i_op' = "drain"
      /\ i_event' = data
      /\ i_pattern' = pattern
      /\ i_errno' = err
      /\ i_written' = d.written
      /\ i_result' = d.result
      /\ UNCHANGED <<key_state, button_state, i_key, i_stale, i_handsoff>>

\* key_state_row = evdev_code >> 6 & 0x3, key_state_shift = evdev_code & 0x3f
KeyStateBit(evdev_code) == ((evdev_code \div 64) % 4) * 64 + (evdev_code % 64)

InputStreamKeyPress(evdev_code, pressed, pattern, err) ==
  LET bit   == KeyStateBit(evdev_code)
      state == IF pressed THEN key_state \cup {bit}
               ELSE key_state \ {bit}
      event == KeyboardEvent(state)
      d == Drain(event, pattern, err)
  IN  /\ i_op' = "keypress"
      /\ i_key' = [code |-> evdev_code, pressed |-> pressed]
      /\ i_stale' = IF pressed THEN i_stale \ {bit} ELSE i_stale
      /\ UNCHANGED <<i_handsoff, button_state>>
      /\ IF state = key_state
         THEN /\ i_event' = <<>>
              /\ i_pattern' = <<>>
              /\ i_errno' = err
              /\ i_written' = <<>>
              /\ i_result' = TRUE
              /\ UNCHANGED key_state
         ELSE /\ key_state' = state
              /\ i_event' = event
              /\ i_pattern' = pattern
              /\ i_errno' = err
              /\ i_written' = d.written
              /\ i_result' = d.result

\* InputStreamFormatMouse: u.input2.data of the event, 7 bytes
InputStreamFormatMouse(buttons, dx, dy, wheel) ==
  <<2, ButtonByte(buttons)>> \o LittleEndian(dx % 65536, 2)
    \o LittleEndian(dy % 65536, 2) \o <<wheel % 256>>

\* the bytes Drain gets for a mouse event: type, u.input2.size, the report
MouseEvent(buttons) ==
  LittleEndian(UHID_INPUT2, 4) \o LittleEndian(MouseReportSize, 2)
    \o InputStreamFormatMouse(buttons, 0, 0, 0)

\* the switch of InputStreamMouseButton, -1 for its default
ButtonShift(button) ==
  CASE button = BTN_LEFT -> 0
    [] button = BTN_RIGHT -> 1
    [] button = BTN_MIDDLE -> 2
    [] OTHER -> -1

InputStreamMouseButton(button, pressed, pattern, err) ==
  LET shift == ButtonShift(button)
      state == IF shift = -1 THEN button_state
               ELSE IF pressed THEN button_state \cup {shift}
               ELSE button_state \ {shift}
      event == MouseEvent(state)
      d == Drain(event, pattern, err)
  IN  /\ i_op' = "mousebutton"
      /\ i_key' = [code |-> button, pressed |-> pressed]
      /\ UNCHANGED <<key_state, i_stale, i_handsoff>>
      /\ IF state = button_state
         THEN /\ i_event' = <<>>
              /\ i_pattern' = <<>>
              /\ i_errno' = err
              /\ i_written' = <<>>
              /\ i_result' = TRUE
              /\ UNCHANGED button_state
         ELSE /\ button_state' = state
              /\ i_event' = event
              /\ i_pattern' = pattern
              /\ i_errno' = err
              /\ i_written' = d.written
              /\ i_result' = d.result

\* a handsoff that leaves the keyboard state as it is
BadClearKeyState(state) == state

\* memset(input_stream->key_state, 0, sizeof(input_stream->key_state))
ClearKeyState(state) == {}

InputStreamHandsoff(pattern, err) ==
  LET d == Drain(HandsoffEvent, pattern, err)
  IN  /\ i_op' = "handsoff"
      /\ key_state' = ClearKeyState(key_state)
      /\ i_stale' = i_stale \cup key_state
      /\ i_handsoff' = TRUE
      /\ UNCHANGED <<button_state, i_key>>
      /\ i_event' = HandsoffEvent
      /\ i_pattern' = pattern
      /\ i_errno' = err
      /\ i_written' = d.written
      /\ i_result' = d.result

\* OnWindowFocus: losing the focus runs the handsoff, gaining it does nothing
OnWindowFocus(focused, pattern, err) ==
  IF focused THEN UNCHANGED inputVars
  ELSE InputStreamHandsoff(pattern, err)

(***************************************************************************)
(* The bit reader of mfx_stub (bitstream.c): struct Bitstream over the      *)
(* bytes of one NAL unit.                                                   *)
(***************************************************************************)
VARIABLES
  nalu_data,       \* nalu.data[0 .. size - 1], as a sequence (size is its length)
  nalu_offset,     \* nalu.offset, in bits
  nalu_epb_count,  \* nalu.epb_count
  nalu_cache,      \* nalu.cache
  nalu_trap,       \* longjmp(nalu.trap) was taken
  nalu_bits,       \* history: for every bit returned, its byte index and value
  nalu_value,      \* what the last BitstreamReadU / ReadUE / ReadSE returned
  nalu_input       \* history: what the bytes were made from, for the code words

bitsVars == <<nalu_data, nalu_offset, nalu_epb_count, nalu_cache, nalu_trap,
              nalu_bits, nalu_value, nalu_input>>

\* the byte values NAL units are made of: zero, the start code's one, the
\* emulation prevention byte and one payload byte
NalBytes == {0, 1, 3, 65}

\* every byte sequence of at most n bytes
RECURSIVE BytesUpTo(_)
BytesUpTo(n) ==
  IF n = 0 THEN {<<>>}
  ELSE LET shorter == BytesUpTo(n - 1)
       IN  shorter \cup {Append(d, b) : d \in shorter, b \in NalBytes}

\* the 32-bit cache is held as its four bytes, the most significant first
ZeroCache == <<0, 0, 0, 0>>

\* BitstreamCreate(data, size)
BitstreamCreate(data) ==
  [data |-> data, offset |-> 0, epb_count |-> 0, cache |-> ZeroCache, trap |-> FALSE,
   bits |-> <<>>]

\* (bitstream->cache << 8) | bitstream->data[byte]: the top byte is lost
ShiftIn(cache, byte) == <<cache[2], cache[3], cache[4], byte>>

\* bitstream->cache & 0xffffff
Low24(cache) == (cache[2] * 256 + cache[3]) * 256 + cache[4]

\* the test of BitstreamReadBit without its condition on the offset
BadIsEpb(offset, cache) == Low24(cache) = 3

\* bitstream->offset >= 24 && (bitstream->cache & 0xffffff) == 3
IsEpb(offset, cache) == offset >= 24 /\ Low24(cache) = 3

\* the repeat: loop of BitstreamReadBit: the byte at the offset is shifted
\* into the 32-bit cache, and an emulation prevention byte is stepped over
RECURSIVE LoadByte(_)
LoadByte(b) ==
  LET byte == b.offset \div 8
  IN  IF byte >= Len(b.data) THEN [b EXCEPT !.trap = TRUE]
      ELSE LET cache == ShiftIn(b.cache, b.data[byte + 1])
           IN  IF IsEpb(b.offset, cache)
               THEN LoadByte([b EXCEPT !.cache = cache,
                                       !.offset = b.offset + 8,
                                       !.epb_count = b.epb_count + 1])
               ELSE [b EXCEPT !.cache = cache]

\* the end of BitstreamReadBit, l the reader after the repeat: loop: the bit
\* at the shift is taken out of the low byte of the cache
TakeBit(b, l, shift) ==
  IF b.trap \/ l.trap THEN l
  ELSE [l EXCEPT !.offset = l.offset + 1,
                 !.bits = Append(l.bits,
                            [byte |-> l.offset \div 8,
                             bit |-> (l.cache[4] \div Pow2(shift)) % 2])]

\* BitstreamReadBit: the reader after the read; the bit is the last of bits.
\* A reader that took the longjmp is not read from again.
ReadBit(b) ==
  TakeBit(b, IF b.offset % 8 = 0 THEN LoadByte(b) ELSE b, 7 - (b.offset % 8))

LastBit(b) == b.bits[Len(b.bits)].bit

\* BitstreamReadU: the reader and the value after size bits
RECURSIVE ReadU(_, _, _)

\* the body of the loop of BitstreamReadU after its BitstreamReadBit
ReadUStep(r, size, result) ==
  IF r.trap THEN [b |-> r, value |-> result]
  ELSE ReadU(r, size - 1, result * 2 + LastBit(r))

ReadU(b, size, result) ==
  IF size = 0 \/ b.trap THEN [b |-> b, value |-> result]
  ELSE ReadUStep(ReadBit(b), size, result)

\* while (!BitstreamReadBit(bitstream)) size++
RECURSIVE LeadingZeros(_, _)

\* the test of that loop, r the reader after its BitstreamReadBit
LeadingZerosStep(r, size) ==
  IF r.trap THEN [b |-> r, size |-> size]
  ELSE IF LastBit(r) = 1 THEN [b |-> r, size |-> size]
  ELSE LeadingZeros(r, size + 1)

LeadingZeros(b, size) == LeadingZerosStep(ReadBit(b), size)

\* BitstreamReadU(bitstream, size) - 1 + (1 << size)
CodeNumber(z, u) == [b |-> u.b, value |-> u.value + Pow2(z.size) - 1]

\* BitstreamReadUE after its loop, z the reader and the size it ends with
ReadUETail(z) == CodeNumber(z, ReadU(z.b, z.size, 0))

\* BitstreamReadUE
ReadUE(b) == ReadUETail(LeadingZeros(b, 0))

\* a ReadSE that takes the code number for the value
BadSignedOf(result) == result

\* sign * ((result + 1) >> 1), the sign +1 for an odd code number
SignedOf(result) ==
  LET sign == (result % 2) * 2 - 1
  IN  sign * ((result + 1) \div 2)

\* the value of BitstreamReadSE, u what its BitstreamReadUE gave
Signed(u) == [b |-> u.b, value |-> SignedOf(u.value)]

\* BitstreamReadSE
ReadSE(b) == Signed(ReadUE(b))

\* BitstreamAvail
BitstreamAvail(offset, data) == offset < Len(data) * 8

\* a byte offset that leaves the skipped bytes out of account
BadSliceDataByteOffset(offset, epb_count) == offset \div 8

\* session->spb.slice_data_byte_offset = (nalu.offset >> 3) - nalu.epb_count
SliceDataByteOffset(offset, epb_count) == offset \div 8 - epb_count

\* the reader the variables hold
Nalu ==
  [data |-> nalu_data, offset |-> nalu_offset, epb_count |-> nalu_epb_count,
   cache |-> nalu_cache, trap |-> nalu_trap, bits |-> nalu_bits]

\* the variables take the reader r
SetNalu(r) ==
  /\ nalu_offset' = r.offset
  /\ nalu_epb_count' = r.epb_count
  /\ nalu_cache' = r.cache
  /\ nalu_trap' = r.trap
  /\ nalu_bits' = r.bits
  /\ UNCHANGED nalu_data

\* the number of bits of n >= 1
RECURSIVE BitLength(_)
BitLength(n) == IF n <= 1 THEN 1 ELSE 1 + BitLength(n \div 2)

\* n as m bits, the most significant first
BitsOf(n, m) == [k \in 1 .. m |-> (n \div Pow2(m - k)) % 2]

\* the exp-Golomb code word of k >= 0: as many zeros as k + 1 has bits
\* after its first, then k + 1
EncodeUE(k) ==
  [j \in 1 .. BitLength(k + 1) - 1 |-> 0] \o BitsOf(k + 1, BitLength(k + 1))

\* the signed code word: k > 0 is sent as 2k - 1, k <= 0 as -2k
EncodeSE(k) == EncodeUE(IF k > 0 THEN 2 * k - 1 ELSE (0 - 2) * k)

\* bits packed into bytes, the last byte filled up with zeros
PackBits(bits) ==
  LET n == (Len(bits) + 7) \div 8
      at(k) == IF k <= Len(bits) THEN bits[k] ELSE 0
  IN  [i \in 1 .. n |->
         LET v[j \in 0 .. 8] ==
               IF j = 0 THEN 0 ELSE v[j - 1] * 2 + at(8 * (i - 1) + j)
         IN  v[8]]

\* the code word of the input, after as many one bits as its third part says
CodeWord(input) ==
  IF input[1] = "ue" THEN EncodeUE(input[2]) ELSE EncodeSE(input[2])

CodeInputs ==
  {<<"ue", k, pad>> : k \in 0 .. MaxCode, pad \in 0 .. 7}
    \cup {<<"se", k, pad>> : k \in (0 - MaxCode) .. MaxCode, pad \in 0 .. 7}

BitsInit ==
  /\ nalu_data = <<>>
  /\ nalu_offset = 0
  /\ nalu_epb_count = 0
  /\ nalu_cache = ZeroCache
  /\ nalu_trap = FALSE
  /\ nalu_bits = <<>>
  /\ nalu_value = 0
  /\ nalu_input = <<"none", 0, 0>>

\* one call of BitstreamReadBit
BitstreamReadBit ==
  /\ ~nalu_trap
  /\ SetNalu(ReadBit(Nalu))
  /\ nalu_value' = IF ReadBit(Nalu).trap THEN nalu_value ELSE LastBit(ReadBit(Nalu))
  /\ UNCHANGED nalu_input

\* BitstreamReadU(nalu, size) called on the reader
BitstreamReadU(size) ==
  /\ ~nalu_trap
  /\ nalu_input[1] # "none"
  /\ nalu_offset = 0
  /\ size = nalu_input[3]
  /\ SetNalu(ReadU(Nalu, size, 0).b)
  /\ nalu_value' = ReadU(Nalu, size, 0).value
  /\ UNCHANGED nalu_input

\* BitstreamReadUE(nalu) called on the reader
BitstreamReadUE ==
  /\ ~nalu_trap
  /\ nalu_input[1] = "ue"
  /\ nalu_offset = nalu_input[3]
  /\ SetNalu(ReadUE(Nalu).b)
  /\ nalu_value' = ReadUE(Nalu).value
  /\ UNCHANGED nalu_input

\* BitstreamReadSE(nalu) called on the reader
BitstreamReadSE ==
  /\ ~nalu_trap
  /\ nalu_input[1] = "se"
  /\ nalu_offset = nalu_input[3]
  /\ SetNalu(ReadSE(Nalu).b)
  /\ nalu_value' = ReadSE(Nalu).value
  /\ UNCHANGED nalu_input

(***************************************************************************)
(* The outer reader of mfx_stub: a packet of start-code-delimited NAL units *)
(* cut up by BitstreamReadNalu.                                             *)
(***************************************************************************)
VARIABLES
  bs_data,     \* bitstream.data[0 .. size - 1] of the packet
  bs_offset,   \* bitstream.offset of the outer reader, in bits
  bs_ret,      \* "true" or "false" as the last BitstreamReadNalu returned, else "none"
  bs_before,   \* history: bitstream.offset when the last call was entered
  bs_spans,    \* history: first byte index and size of every reader produced
  mfx_status,  \* what the decoder call returned, "none" before it
  mfx_log,     \* history: one record per NAL unit the decoder call came to
  mfx_ppb,     \* the fields of session->ppb the slice header is parsed by
  mfx_units    \* history: the names of the units the packet was made of

packetVars == <<bs_data, bs_offset, bs_ret, bs_before, bs_spans, mfx_status,
                mfx_log, mfx_ppb, mfx_units>>

kStartCodePrefix == <<0, 0, 0, 1>>

\* the byte values packets are made of in the model of BitstreamReadNalu
PacketBytes == {0, 1, 65}

RECURSIVE PacketsOfBytesUpTo(_)
PacketsOfBytesUpTo(n) ==
  IF n = 0 THEN {<<>>}
  ELSE LET shorter == PacketsOfBytesUpTo(n - 1)
       IN  shorter \cup {Append(d, b) : d \in shorter, b \in PacketBytes}

\* !memcmp(data + at, kStartCodePrefix, 4), for at + 4 <= Len(data)
StartCodeAt(data, at) ==
  /\ at + Len(kStartCodePrefix) <= Len(data)
  /\ \A k \in 1 .. Len(kStartCodePrefix) : data[at + k] = kStartCodePrefix[k]

\* a search that misses a start code right behind the one just matched
BadMemmem(data, from) ==
  IF \E at \in from + 1 .. Len(data) : StartCodeAt(data, at)
  THEN CHOOSE at \in from + 1 .. Len(data) :
         /\ StartCodeAt(data, at)
         /\ \A lower \in from + 1 .. at - 1 : ~StartCodeAt(data, lower)
  ELSE Len(data)

\* memmem(data + from, size - from, kStartCodePrefix, 4): the index of the
\* first start code at or after from, Len(data) standing for NULL
Memmem(data, from) ==
  IF \E at \in from .. Len(data) : StartCodeAt(data, at)
  THEN CHOOSE at \in from .. Len(data) :
         /\ StartCodeAt(data, at)
         /\ \A lower \in from .. at - 1 : ~StartCodeAt(data, lower)
  ELSE Len(data)

\* BitstreamReadNalu on an outer reader: whether it returned true, the
\* offset it leaves, and first byte and size of the output reader
ReadNalu(data, offset) ==
  LET byte_offset == offset \div 8
      first == byte_offset + Len(kStartCodePrefix)
      next == Memmem(data, first)
  IN  IF offset % 8 # 0 THEN [ok |-> FALSE, offset |-> offset, first |-> 0, size |-> 0]
      ELSE IF Len(data) - byte_offset < Len(kStartCodePrefix)
      THEN [ok |-> FALSE, offset |-> offset, first |-> 0, size |-> 0]
      ELSE IF ~StartCodeAt(data, byte_offset)
      THEN [ok |-> FALSE, offset |-> offset, first |-> 0, size |-> 0]
      ELSE [ok |-> TRUE, offset |-> next * 8, first |-> first, size |-> next - first]

BLA_W_LP == 16
IDR_N_LP == 20
RSV_IRAP_VCL23 == 23
SliceTypeP == 1
SliceTypeI == 2

\* session->ppb as MFXInit leaves it: calloc
ZeroPpb ==
  [log2_max_pic_order_cnt_lsb_minus4 |-> 0,
   num_short_term_ref_pic_sets |-> 0,
   sps_temporal_mvp_enabled_flag |-> 0,
   cabac_init_present_flag |-> 0,
   pps_loop_filter_across_slices_enabled_flag |-> 0,
   num_ref_idx_l0_default_active_minus1 |-> 0]

\* the sessions of the model: the zeroed one, and one whose parameter sets
\* switched on the optional fields of the slice header
Sessions ==
  {ZeroPpb,
   [ZeroPpb EXCEPT !.cabac_init_present_flag = 1,
                   !.pps_loop_filter_across_slices_enabled_flag = 1]}

\* a parse in progress: the reader, "ok" / "trap" (the longjmp was taken) /
\* "assert" (an assert failed), and the value of the field read last
StartParse(b) ==
  [b |-> b, out |-> "ok", value |-> 0, slice_type |-> 0,
   slice_temporal_mvp_enabled_flag |-> 0, num_ref_idx_l0_active_minus1 |-> 0]

\* BitstreamReadU (kind "u"), BitstreamReadUE or BitstreamReadSE
Read(b, kind, size) ==
  CASE kind = "u" -> ReadU(b, size, 0)
    [] kind = "ue" -> ReadUE(b)
    [] OTHER -> ReadSE(b)

\* the parse after the read r: a read that took the longjmp ends it
AfterRead(p, r) ==
  [p EXCEPT !.b = r.b, !.out = IF r.b.trap THEN "trap" ELSE "ok",
            !.value = r.value]

\* one field read
Field(p, kind, size) ==
  IF p.out # "ok" THEN p ELSE AfterRead(p, Read(p.b, kind, size))

\* assert(<the field read last> == required)
Require(p, required) ==
  IF p.out = "ok" /\ p.value # required THEN [p EXCEPT !.out = "assert"] ELSE p

\* the field read last is kept in the slice parameters under a name
Store(p, name) == IF p.out = "ok" THEN [p EXCEPT ![name] = p.value] ELSE p

\* the same through a cast to uint8_t
StoreByte(p, name) ==
  IF p.out = "ok" THEN [p EXCEPT ![name] = p.value % 256] ELSE p

\* BitstreamByteAlign
ByteAlign(p) ==
  IF p.out # "ok" THEN p
  ELSE [p EXCEPT !.b.offset = ((p.b.offset + 7) \div 8) * 8]

\* ParseNaluHeader: the parse after it, its value the nal_unit_type
ParseNaluHeader(p) ==
  LET forbidden == Require(Field(p, "u", 1), 0)
      type == Field(forbidden, "u", 6)
      layer == Require(Field(type, "u", 6), 0)
      tid == Require(Field(layer, "u", 3), 1)
  IN  [tid EXCEPT !.value = type.value]

\* ParseStRefPicSet
ParseStRefPicSet(p, stRpsIdx) ==
  LET pred == IF stRpsIdx # 0 THEN Require(Field(p, "u", 1), 0) ELSE p
      neg == Require(Field(pred, "ue", 0), 1)
      pos == Require(Field(neg, "ue", 0), 0)
      delta == Require(Field(pos, "ue", 0), 0)
  IN  Require(Field(delta, "u", 1), 1)

\* CeilLog2(x) for the x >= 2 it is called with
RECURSIVE CeilLog2(_)
CeilLog2(x) == IF x <= 1 THEN 0 ELSE 1 + CeilLog2((x + 1) \div 2)

\* the statement pc of ParseSliceSegmentHeader, the statements numbered in
\* the order of the source
SliceStatement(q, sess, nal_unit_type, pc) ==
  CASE pc = 1 -> \* first_slice_segment_in_pic_flag
         Require(Field(q, "u", 1), 1)
    [] pc = 2 -> \* no_output_of_prior_pics_flag
         IF nal_unit_type >= BLA_W_LP /\ nal_unit_type <= RSV_IRAP_VCL23
         THEN Require(Field(q, "u", 1), 0)
         ELSE q
    [] pc = 3 -> \* slice_pic_parameter_set_id
         Require(Field(q, "ue", 0), 0)
    [] pc = 4 -> \* slice_type
         Store(Field(q, "ue", 0), "slice_type")
    [] pc = 5 -> \* slice_pic_order_cnt_lsb
         Field(q, "u", sess.log2_max_pic_order_cnt_lsb_minus4 + 4)
    [] pc = 6 -> \* short_term_ref_pic_set_sps_flag
         Field(q, "u", 1)
    [] pc = 7 ->
         IF q.value = 0
         THEN ParseStRefPicSet(q, sess.num_short_term_ref_pic_sets)
         ELSE IF sess.num_short_term_ref_pic_sets > 1
         THEN Field(q, "u", CeilLog2(sess.num_short_term_ref_pic_sets))
         ELSE q
    [] pc = 8 -> \* slice_temporal_mvp_enabled_flag
         IF sess.sps_temporal_mvp_enabled_flag = 1
         THEN Store(Field(q, "u", 1), "slice_temporal_mvp_enabled_flag")
         ELSE q
    [] pc = 9 -> \* slice_sao_luma_flag
         Require(Field(q, "u", 1), 1)
    [] pc = 10 -> \* slice_sao_chroma_flag
         Require(Field(q, "u", 1), 1)
    [] pc = 11 ->
         [q EXCEPT !.num_ref_idx_l0_active_minus1 =
                     sess.num_ref_idx_l0_default_active_minus1]
    [] pc = 12 -> \* num_ref_idx_active_override_flag
         Field(q, "u", 1)
    [] pc = 13 -> \* (uint8_t)BitstreamReadUE(nalu)
         IF q.value = 1
         THEN StoreByte(Field(q, "ue", 0), "num_ref_idx_l0_active_minus1")
         ELSE q
    [] pc = 14 -> \* cabac_init_flag
         IF sess.cabac_init_present_flag = 1 THEN Field(q, "u", 1) ELSE q
    [] pc = 15 -> \* collocated_ref_idx; collocated_from_l0_flag is 1
         IF q.slice_temporal_mvp_enabled_flag = 1
              /\ q.num_ref_idx_l0_active_minus1 > 0
         THEN Field(q, "ue", 0)
         ELSE q
    [] pc = 16 -> \* five_minus_max_num_merge_cand
         Field(q, "ue", 0)
    [] pc = 17 -> \* slice_qp_delta
         Field(q, "se", 0)
    [] pc = 18 -> \* slice_loop_filter_across_slices_enabled_flag; both sao
                 \* flags are 1 here
         IF sess.pps_loop_filter_across_slices_enabled_flag = 1
         THEN Field(q, "u", 1)
         ELSE q
    [] OTHER -> ByteAlign(q)

\* the statement after pc: an IDR slice has no picture order count and no
\* reference picture set, and only a P slice has the fields 12 to 16
SliceNext(q, nal_unit_type, pc) ==
  CASE pc = 4 /\ (nal_unit_type = IDR_W_RADL \/ nal_unit_type = IDR_N_LP) -> 9
    [] pc = 11 /\ q.slice_type # SliceTypeP -> 17
    [] OTHER -> pc + 1

\* ParseSliceSegmentHeader from its statement pc on, 20 its end
RECURSIVE SliceSegmentHeaderFrom(_, _, _, _)
SliceSegmentHeaderFrom(p, sess, nal_unit_type, pc) ==
  IF pc = 20 \/ p.out # "ok" THEN p
  ELSE SliceSegmentHeaderFrom(SliceStatement(p, sess, nal_unit_type, pc), sess,
                              nal_unit_type, SliceNext(p, nal_unit_type, pc))

\* ParseSliceSegmentHeader
ParseSliceSegmentHeader(p, sess, nal_unit_type) ==
  SliceSegmentHeaderFrom(p, sess, nal_unit_type, 1)

\* the status a failed read ends the call with, mistaken for success
BadReadFailedStatus == "MFX_ERR_NONE"

\* if (BitstreamReadFailed(&nalu)) return MFX_ERR_UNSUPPORTED
ReadFailedStatus == "MFX_ERR_UNSUPPORTED"

\* if (nal_unit_type != TRAIL_R && nal_unit_type != IDR_W_RADL) continue;
IsSliceHeader(header) ==
  header.out = "ok" /\ (header.value = TRAIL_R \/ header.value = IDR_W_RADL)

\* what the log keeps of one NAL unit
LogEntry(r, header, slice, upload_ok) ==
  [first |-> r.first, size |-> r.size, type |-> header.value,
   out |-> slice.out, bits |-> slice.b.bits,
   submitted |-> IsSliceHeader(header) /\ slice.out = "ok" /\ upload_ok,
   slice_data_byte_offset |->
     SliceDataByteOffset(slice.b.offset, slice.b.epb_count)]

\* the loop of MFXVideoDECODE_DecodeFrameAsync over the packet from the
\* bit offset on; upload_ok says whether UploadAndDecode succeeds.  The
\* result is the status and the log of the NAL units come to.
RECURSIVE DecodeLoop(_, _, _, _, _)

\* the loop body after the headers of the NAL unit were parsed
DecodeSlice(data, r, sess, upload_ok, log, header, slice) ==
  LET done == Append(log, LogEntry(r, header, slice, upload_ok))
  IN  IF slice.out = "trap"
      THEN [status |-> ReadFailedStatus, log |-> done]
      ELSE IF slice.out = "assert"
      THEN [status |-> "abort", log |-> done]
      ELSE IF IsSliceHeader(header) /\ ~upload_ok
      THEN [status |-> "MFX_ERR_DEVICE_FAILED", log |-> done]
      ELSE DecodeLoop(data, r.offset, sess, upload_ok, done)

\* the loop body after ParseNaluHeader
DecodeUnit(data, r, sess, upload_ok, log, header) ==
  DecodeSlice(data, r, sess, upload_ok, log, header,
              IF IsSliceHeader(header)
              THEN ParseSliceSegmentHeader(header, sess, header.value)
              ELSE header)

\* the loop body after BitstreamReadNalu
DecodeNalu(data, r, sess, upload_ok, log) ==
  IF ~r.ok THEN [status |-> "MFX_ERR_UNSUPPORTED", log |-> log]
  ELSE DecodeUnit(data, r, sess, upload_ok, log,
                  ParseNaluHeader(StartParse(BitstreamCreate(
                    SubSeq(data, r.first + 1, r.first + r.size)))))

DecodeLoop(data, offset, sess, upload_ok, log) ==
  IF ~BitstreamAvail(offset, data) THEN [status |-> "MFX_ERR_NONE", log |-> log]
  ELSE DecodeNalu(data, ReadNalu(data, offset), sess, upload_ok, log)

\* the 16 bits of a NAL unit header
HeaderBits(forbidden, type, layer, tid) ==
  <<forbidden>> \o BitsOf(type, 6) \o BitsOf(layer, 6) \o BitsOf(tid, 3)

\* the header of an I slice: first_slice_segment_in_pic_flag 1,
\* no_output_of_prior_pics_flag 0, slice_pic_parameter_set_id 0, slice_type
\* I, both sao flags 1, slice_qp_delta 0, and one bits for whatever optional
\* field the session asks for
IdrSliceBits == <<1, 0, 1, 0, 1, 1, 1, 1, 1, 1, 1, 1, 1>>

\* the header of a P slice after an IDR picture: slice_type P, 4 bits of
\* picture order count, a reference picture set of its own, no override
TrailSliceBits ==
  <<1, 1, 0, 1, 0, 0, 0, 0, 1, 0, 0, 1, 0, 1, 1, 1, 1, 1, 0, 1, 1, 1, 1, 1>>

\* the NAL units packets are made of, by name, without their start code
UnitBytes(name) ==
  CASE name = "aud" -> PackBits(HeaderBits(0, AUD_NUT, 0, 1)) \o <<65>>
    [] name = "idr" ->
         PackBits(HeaderBits(0, IDR_W_RADL, 0, 1) \o IdrSliceBits) \o <<65, 65>>
    [] name = "trail" ->
         PackBits(HeaderBits(0, TRAIL_R, 0, 1) \o TrailSliceBits) \o <<65>>
    [] name = "header_cut" -> <<38>>
    [] name = "idr_cut" -> PackBits(HeaderBits(0, IDR_W_RADL, 0, 1))
    [] name = "idr_ue_cut" ->
         PackBits(HeaderBits(0, IDR_W_RADL, 0, 1) \o <<1, 0>>)
    [] name = "idr_se_cut" ->
         PackBits(HeaderBits(0, IDR_W_RADL, 0, 1) \o <<1, 0, 1, 0, 1, 1, 1, 1>>)
    [] name = "idr_epb_cut" ->
         PackBits(HeaderBits(0, IDR_W_RADL, 0, 1) \o <<1, 0, 1>>) \o <<0, 0, 3>>
    [] name = "bad_forbidden" ->
         PackBits(HeaderBits(1, IDR_W_RADL, 0, 1) \o IdrSliceBits) \o <<65>>
    [] name = "bad_layer" ->
         PackBits(HeaderBits(0, IDR_W_RADL, 1, 1) \o IdrSliceBits) \o <<65>>
    [] name = "bad_first" ->
         PackBits(HeaderBits(0, IDR_W_RADL, 0, 1) \o <<0>> \o Tail(IdrSliceBits))
           \o <<65>>
    [] name = "bad_sao" ->
         PackBits(HeaderBits(0, IDR_W_RADL, 0, 1) \o <<1, 0, 1, 0, 1, 1, 0, 1, 1>>)
           \o <<65>>
    [] OTHER -> <<65>>

UnitNames ==
  {"aud", "idr", "trail", "header_cut", "idr_cut", "idr_ue_cut", "idr_se_cut",
   "idr_epb_cut", "bad_forbidden", "bad_layer", "bad_first", "bad_sao", "junk"}

\* every sequence of at most n unit names
RECURSIVE UnitsUpTo(_)
UnitsUpTo(n) ==
  IF n = 0 THEN {<<>>}
  ELSE LET shorter == UnitsUpTo(n - 1)
       IN  shorter \cup {Append(u, name) : u \in shorter, name \in UnitNames}

\* the packets of the model: "junk", bytes that are no start code, can only
\* stand where the first start code should, since anywhere else such bytes
\* are part of the unit before them
PacketUnits(n) ==
  {u \in UnitsUpTo(n) : \A k \in 2 .. Len(u) : u[k] # "junk"}

\* the bytes of a packet: each unit behind a start code, but for "junk",
\* which stands where a start code should
RECURSIVE PacketOf(_)
PacketOf(units) ==
  IF units = <<>> THEN <<>>
  ELSE (IF Head(units) = "junk" THEN <<>> ELSE kStartCodePrefix)
         \o UnitBytes(Head(units)) \o PacketOf(Tail(units))

PacketInit ==
  /\ bs_data = <<>>
  /\ bs_offset = 0
  /\ bs_ret = "none"
  /\ bs_before = 0
  /\ bs_spans = <<>>
  /\ mfx_status = "none"
  /\ mfx_log = <<>>
  /\ mfx_ppb = ZeroPpb
  /\ mfx_units = <<>>

\* one call BitstreamReadNalu(&bitstream, &nalu); on success nalu is a
\* reader created over the span
BitstreamReadNalu ==
  LET r == ReadNalu(bs_data, bs_offset)
      out == BitstreamCreate(SubSeq(bs_data, r.first + 1, r.first + r.size))
  IN  /\ bs_ret # "false"
      /\ mfx_status = "none"
      /\ bs_ret' = IF r.ok THEN "true" ELSE "false"
      /\ bs_before' = bs_offset
      /\ bs_offset' = r.offset
      /\ UNCHANGED <<bs_data, mfx_status, mfx_log, mfx_ppb, mfx_units>>
      /\ IF r.ok
         THEN /\ bs_spans' = Append(bs_spans, [first |-> r.first, size |-> r.size])
              /\ nalu_data' = out.data
              /\ nalu_offset' = out.offset
              /\ nalu_epb_count' = out.epb_count
              /\ nalu_cache' = out.cache
              /\ nalu_trap' = out.trap
              /\ nalu_bits' = out.bits
              /\ UNCHANGED <<nalu_value, nalu_input>>
         ELSE UNCHANGED <<bs_spans, bitsVars>>

\* MFXVideoDECODE_DecodeFrameAsync called with the packet
MFXVideoDECODE_DecodeFrameAsync(upload_ok) ==
  LET r == DecodeLoop(bs_data, bs_offset, mfx_ppb, upload_ok, <<>>)
  IN  /\ mfx_status = "none"
      /\ mfx_status' = r.status
      /\ mfx_log' = r.log
      /\ UNCHANGED <<bs_data, bs_offset, bs_ret, bs_before, bs_spans, mfx_ppb,
                     mfx_units>>

(***************************************************************************)
(* The specifications: one per component, the others left untouched.       *)
(***************************************************************************)
vars == <<ringVars, demuxVars, decodeVars, mainVars, inputVars, bitsVars, packetVars>>

Init ==
  /\ RingInit
  /\ DemuxInit
  /\ DecodeInit
  /\ MainInit
  /\ InputInit
  /\ BitsInit
  /\ PacketInit

\* one producer thread and one consumer thread, a step of either at a time
RingNext ==
  \/ \E n \in 1 .. MaxReq :
       WriteLoad(n) /\ UNCHANGED <<demuxVars, decodeVars, mainVars, inputVars, bitsVars, packetVars>>
  \/ WriteCopy /\ UNCHANGED <<demuxVars, decodeVars, mainVars, inputVars, bitsVars, packetVars>>
  \/ WritePublish /\ UNCHANGED <<demuxVars, decodeVars, mainVars, inputVars, bitsVars, packetVars>>
  \/ \E n \in 1 .. MaxReq :
       ReadLoad(n) /\ UNCHANGED <<demuxVars, decodeVars, mainVars, inputVars, bitsVars, packetVars>>
  \/ ReadCopy /\ UNCHANGED <<demuxVars, decodeVars, mainVars, inputVars, bitsVars, packetVars>>
  \/ ReadPublish /\ UNCHANGED <<demuxVars, decodeVars, mainVars, inputVars, bitsVars, packetVars>>
  \/ OnStreamProcess /\ UNCHANGED <<demuxVars, decodeVars, mainVars, inputVars, bitsVars, packetVars>>

\* the server sending records and the client servicing its socket
DemuxNext ==
  \/ \E type \in {PROTO_TYPE_MISC, PROTO_TYPE_VIDEO, PROTO_TYPE_AUDIO} :
       \E size \in {0, MaxPayload} :
         ServerSend(type, size) /\ UNCHANGED <<ringVars, decodeVars, mainVars, inputVars, bitsVars, packetVars>>
  \/ \E k \in 1 .. Len(wire) : \E failAt \in 0 .. MaxRecords :
       DemuxProtoStream(k, failAt) /\ UNCHANGED <<ringVars, decodeVars, mainVars, inputVars, bitsVars, packetVars>>
  \/ DemuxProtoStreamNoData /\ UNCHANGED <<ringVars, decodeVars, mainVars, inputVars, bitsVars, packetVars>>

\* the packets of the video stream reaching the decoder one after another
DecodeNext ==
  \/ \E nalus \in Arriving : \E fault \in FaultsAt(nalus) :
       DecodeContextDecode(nalus, fault) /\ UNCHANGED <<ringVars, demuxVars, mainVars, inputVars, bitsVars, packetVars>>
  \/ DecodeContextDecodeNoData /\ UNCHANGED <<ringVars, demuxVars, mainVars, inputVars, bitsVars, packetVars>>
  \/ DecodeContextDestroy /\ UNCHANGED <<ringVars, demuxVars, mainVars, inputVars, bitsVars, packetVars>>

\* the steps of the main thread
MainThread ==
  \/ \E outcome \in SetupOutcomes : \E noinput \in BOOLEAN : \E stats \in BOOLEAN :
       Setup(outcome, noinput, stats)
         /\ UNCHANGED <<ringVars, demuxVars, decodeVars, inputVars, bitsVars, packetVars>>
  \/ LoopCheck /\ UNCHANGED <<ringVars, demuxVars, decodeVars, inputVars, bitsVars, packetVars>>
  \/ PollEnter /\ UNCHANGED <<ringVars, demuxVars, decodeVars, inputVars, bitsVars, packetVars>>
  \/ \E demux \in {"ok", "error", "closed"} :
       ServiceSock(demux) /\ UNCHANGED <<ringVars, demuxVars, decodeVars, inputVars, bitsVars, packetVars>>
  \/ \E batch \in BatchesUpTo(MaxEvents) : \E dispatch_ok \in BOOLEAN :
       ServiceEvents(batch, dispatch_ok)
         /\ UNCHANGED <<ringVars, demuxVars, decodeVars, inputVars, bitsVars, packetVars>>
  \/ RollbackContext /\ UNCHANGED <<ringVars, demuxVars, decodeVars, inputVars, bitsVars, packetVars>>
  \/ RollbackSocket /\ UNCHANGED <<ringVars, demuxVars, decodeVars, inputVars, bitsVars, packetVars>>

\* what the kernel does to the process: signals and the return of poll
MainEnvironment ==
  \/ \E status \in {SIGINT, SIGTERM} :
       OnSignal(status) /\ UNCHANGED <<ringVars, demuxVars, decodeVars, inputVars, bitsVars, packetVars>>
  \/ \E kind \in {"error", "eintr", "ready"} :
       \E sock_ready \in BOOLEAN : \E events_ready \in BOOLEAN :
         PollReturn(kind, sock_ready, events_ready)
           /\ UNCHANGED <<ringVars, demuxVars, decodeVars, inputVars, bitsVars, packetVars>>

MainNext == MainThread \/ MainEnvironment

\* the window handing key events and focus changes to the input stream
InputNext ==
  \/ \E code \in KeysUpTo(MaxKeys) \cup {KEY_OK} : \E pressed \in BOOLEAN :
       \E pattern \in HandlerPatterns :
         InputStreamKeyPress(code, pressed, pattern, 0)
           /\ UNCHANGED <<ringVars, demuxVars, decodeVars, mainVars, bitsVars, packetVars>>
  \/ \E button \in {BTN_MIDDLE, BTN_SIDE} : \E pressed \in BOOLEAN :
       \E pattern \in HandlerPatterns :
         InputStreamMouseButton(button, pressed, pattern, 0)
           /\ UNCHANGED <<ringVars, demuxVars, decodeVars, mainVars, bitsVars, packetVars>>
  \/ \E focused \in BOOLEAN : \E pattern \in HandlerPatterns :
       OnWindowFocus(focused, pattern, 0)
         /\ UNCHANGED <<ringVars, demuxVars, decodeVars, mainVars, bitsVars, packetVars>>

\* Drain run on an event against every pattern of answers of the sink
DrainNext ==
  \E data \in DrainEvents : \E pattern \in WritePatterns :
    \E err \in {0, EINTR, EIO, EAGAIN} :
      DrainCall(data, pattern, err)
        /\ UNCHANGED <<ringVars, demuxVars, decodeVars, mainVars, bitsVars, packetVars>>

\* InputStreamFormatKeyboard run on a keyboard state
FormatNext ==
  FormatKeyboard /\ UNCHANGED <<ringVars, demuxVars, decodeVars, mainVars, bitsVars, packetVars>>

\* any set of keys can be held when a report is built
FormatInit ==
  /\ RingInit
  /\ DemuxInit
  /\ DecodeInit
  /\ MainInit
  /\ key_state \in SUBSET AllKeys
  /\ button_state = {}
  /\ i_key = [code |-> 0, pressed |-> FALSE]
  /\ i_op = "none"
  /\ i_event = <<>>
  /\ i_pattern = <<>>
  /\ i_errno = 0
  /\ i_written = <<>>
  /\ i_result = TRUE
  /\ i_stale = {}
  /\ i_handsoff = FALSE
  /\ BitsInit
  /\ PacketInit

SpecRing == Init /\ [][RingNext]_vars

SpecDemux == Init /\ [][DemuxNext]_vars

SpecDecode == Init /\ [][DecodeNext]_vars

SpecMain == Init /\ [][MainNext]_vars

SpecInput == Init /\ [][InputNext]_vars

SpecDrain == Init /\ [][DrainNext]_vars

SpecFormat == FormatInit /\ [][FormatNext]_vars

\* the bit reader read bit by bit to the end of a NAL unit
BitsNext ==
  BitstreamReadBit
    /\ UNCHANGED <<ringVars, demuxVars, decodeVars, mainVars, inputVars, packetVars>>

\* the bit reader created over any bytes
ReaderInit ==
  /\ RingInit
  /\ DemuxInit
  /\ DecodeInit
  /\ MainInit
  /\ InputInit
  /\ nalu_data \in BytesUpTo(MaxNalBytes)
  /\ nalu_offset = 0
  /\ nalu_epb_count = 0
  /\ nalu_cache = ZeroCache
  /\ nalu_trap = FALSE
  /\ nalu_bits = <<>>
  /\ nalu_value = 0
  /\ nalu_input = <<"none", 0, 0>>
  /\ PacketInit

SpecBits == ReaderInit /\ [][BitsNext]_vars

\* some bits read, then one code word
GolombNext ==
  \/ \E size \in 1 .. 7 :
       BitstreamReadU(size)
         /\ UNCHANGED <<ringVars, demuxVars, decodeVars, mainVars, inputVars, packetVars>>
  \/ BitstreamReadUE
       /\ UNCHANGED <<ringVars, demuxVars, decodeVars, mainVars, inputVars, packetVars>>
  \/ BitstreamReadSE
       /\ UNCHANGED <<ringVars, demuxVars, decodeVars, mainVars, inputVars, packetVars>>

\* the bit reader created over a code word that follows some one bits
GolombInit ==
  /\ RingInit
  /\ DemuxInit
  /\ DecodeInit
  /\ MainInit
  /\ InputInit
  /\ nalu_input \in CodeInputs
  /\ nalu_data = PackBits([k \in 1 .. nalu_input[3] |-> 1] \o CodeWord(nalu_input))
  /\ nalu_offset = 0
  /\ nalu_epb_count = 0
  /\ nalu_cache = ZeroCache
  /\ nalu_trap = FALSE
  /\ nalu_bits = <<>>
  /\ nalu_value = 0
  /\ PacketInit

SpecGolomb == GolombInit /\ [][GolombNext]_vars

\* BitstreamReadNalu called again and again on a packet
NaluNext ==
  BitstreamReadNalu
    /\ UNCHANGED <<ringVars, demuxVars, decodeVars, mainVars, inputVars>>

\* an outer reader over any bytes, at the start of them or, as no caller
\* leaves it, inside a byte
NaluInit ==
  /\ RingInit
  /\ DemuxInit
  /\ DecodeInit
  /\ MainInit
  /\ InputInit
  /\ BitsInit
  /\ bs_data \in PacketsOfBytesUpTo(MaxPacketBytes)
  /\ bs_offset \in {0, 1, 7}
  /\ bs_ret = "none"
  /\ bs_before = 0
  /\ bs_spans = <<>>
  /\ mfx_status = "none"
  /\ mfx_log = <<>>
  /\ mfx_ppb = ZeroPpb
  /\ mfx_units = <<>>

SpecNalu == NaluInit /\ [][NaluNext]_vars

\* the decoder call on a packet
ParseNext ==
  \E upload_ok \in BOOLEAN :
    MFXVideoDECODE_DecodeFrameAsync(upload_ok)
      /\ UNCHANGED <<ringVars, demuxVars, decodeVars, mainVars, inputVars, bitsVars>>

\* a packet made of some units, and a session
ParseInit ==
  /\ RingInit
  /\ DemuxInit
  /\ DecodeInit
  /\ MainInit
  /\ InputInit
  /\ BitsInit
  /\ mfx_units \in PacketUnits(MaxUnits)
  /\ bs_data = PacketOf(mfx_units)
  /\ mfx_ppb \in Sessions
  /\ bs_offset = 0
  /\ bs_ret = "none"
  /\ bs_before = 0
  /\ bs_spans = <<>>
  /\ mfx_status = "none"
  /\ mfx_log = <<>>

SpecParse == ParseInit /\ [][ParseNext]_vars

\* The main thread is scheduled: a step of it that stays possible is taken.
\* Nothing makes a signal arrive or a descriptor become ready.
FairSpecMain == Init /\ [][MainNext]_vars /\ WF_vars(MainThread)

(***************************************************************************)
(* Claims about the audio ring.                                            *)
(***************************************************************************)

\* C1: in every state of every interleaving of one producer and one
\* consumer, the atomic byte count equals W - R, the bytes transferred so
\* far by writes minus those transferred by reads, and lies in 0 .. capacity.
C1_SizeIsWMinusR ==
  /\ q_size = bytesW - bytesR
  /\ 0 <= q_size
  /\ q_size <= Alloc

\* C1 witness: the ring is full after a write that wrapped around the end of
\* the region, and a read has already transferred bytes.
C1_Witness ==
  /\ q_size = Alloc
  /\ bytesR > 0
  /\ q_write # 0
  /\ w_pc = "idle"
  /\ r_pc = "idle"

\* C2 as stated: the concatenation of the blocks returned by reads is a
\* prefix of the concatenation of the buffers passed to the writes.
C2_ReadsPrefixOfPassed == IsPrefix(got, passed)

\* C2 amended: the concatenation of the blocks returned by reads is a prefix
\* of the concatenation of the parts of the buffers that the writes accepted
\* (the first r_i bytes of each a_i); it is a prefix of the concatenation of
\* the whole buffers as long as no write was truncated by overflow.
C2_ReadsPrefixOfAccepted ==
  /\ IsPrefix(got, accepted)
  /\ (accepted = Take(passed, Len(accepted)) => IsPrefix(got, passed))

\* C2 witness: bytes were read back after a write was truncated and after the
\* read index wrapped around.
C2_Witness ==
  /\ Len(got) > Alloc
  /\ accepted # Take(passed, Len(accepted))
  /\ r_pc = "idle"

(***************************************************************************)
(* Claims about the demultiplexer.                                         *)
(***************************************************************************)

\* the payloads of the video records of a sequence of records, in order
RECURSIVE VideoPayloads(_)
VideoPayloads(recs) ==
  IF recs = <<>> THEN <<>>
  ELSE (IF Head(recs).type = PROTO_TYPE_VIDEO THEN <<Head(recs).payload>>
        ELSE <<>>) \o VideoPayloads(Tail(recs))

RECURSIVE SumRequests(_)
SumRequests(sizes) ==
  IF sizes = <<>> THEN 0
  ELSE ProtoHeaderSize + Head(sizes) + SumRequests(Tail(sizes))

\* C3: however the byte stream is split across transport reads, the records
\* handed to the video handler are the video records of the stream, each
\* once and in stream order: a prefix of them at any time, and all of them
\* once every byte sent was read and no handler failed.
C3_DispatchInStreamOrder ==
  /\ IsPrefix(dispatched, VideoPayloads(sent))
  /\ (wire = <<>> /\ d_result # "fail" => dispatched = VideoPayloads(sent))
  /\ (wire = <<>> /\ d_result # "fail" =>
        processed = [i \in 1 .. Len(sent) |-> Len(sent[i].payload)])

\* C3 witness: two video records with payloads were dispatched although some
\* read ended in the middle of a record.
C3_Witness ==
  /\ Len(dispatched) = 2
  /\ dispatched[1] # <<>>
  /\ dispatched[2] # <<>>
  /\ was_partial
  /\ d_result = "ok"
  /\ wire = <<>>

\* C4: whenever DemuxProtoStream returned success the receive buffer holds no
\* complete record (fewer bytes than a header, or fewer than the header plus
\* the payload size it announces); every processed record removed exactly
\* header size + payload size bytes from the front, and no discard request
\* exceeded the buffer size.
C4_NoCompleteRecordLeft ==
  /\ (d_result = "ok" =>
        \/ Len(d_buf) < ProtoHeaderSize
        \/ Len(d_buf) < ProtoHeaderSize + ProtoSize(d_buf))
  /\ discard_ok
  /\ consumed = SumRequests(processed)
  /\ d_buf = Drop(received, consumed)

\* C4 witness: a successful return that left a whole header but not the whole
\* payload in the buffer, after a record with a payload had been discarded.
C4_Witness ==
  /\ d_result = "ok"
  /\ Len(d_buf) >= ProtoHeaderSize
  /\ consumed > ProtoHeaderSize
  /\ Len(processed) = 1

(***************************************************************************)
(* Claims about the decoder and its surface pool.                           *)
(***************************************************************************)
NumLocked == Cardinality({i \in 0 .. NumFrameSuggested - 1 : locked[i]})

\* C5: for every packet that decoded a frame and was shown, the index handed
\* to the presenter is (global_frame_counter - 1) mod N with the counter read
\* after the decode; the first frame decoded after initialisation goes to
\* surface 0 and leaves both counters at 1, and a first packet of one frame
\* shows surface 0.
C5_ShownIsGlobalMinusOne ==
  /\ \A k \in 1 .. Len(shows) :
       shows[k].index = (shows[k].global - 1) % NumFrameSuggested
  /\ (dec_status = "running" /\ shows # <<>>) =>
       shows[Len(shows)].global = global_frame_counter
  /\ frames # <<>> =>
       /\ frames[1].out = 0
       /\ frames[1].global = 1
       /\ frames[1].local = 1
  /\ (shows # <<>> /\ shows[1].decoded = 1) =>
       /\ shows[1].index = 0
       /\ shows[1].global = 1
       /\ shows[1].local = 1

\* more shown packets than the pool has surfaces, the index back at 0
C5_Witness ==
  /\ dec_status = "running"
  /\ Len(shows) > NumFrameSuggested
  /\ shows[1].decoded = 1
  /\ shows[Len(shows)].index = 0

\* C6: whenever the decoder has only seen successful decodes, at most one
\* surface of the pool has its locked flag set.
C6_AtMostOneLocked ==
  dec_status = "running" => NumLocked <= 1

\* two packets decoded and shown, the surface of the second one locked
C6_Witness ==
  /\ dec_status = "running"
  /\ Len(shows) >= 2
  /\ locked[1]
  /\ NumLocked = 1

\* the frames decoded so far are an IDR frame followed by P frames only
IsIdrThenP ==
  /\ frames # <<>>
  /\ frames[1].type = IDR_W_RADL
  /\ \A k \in 2 .. Len(frames) : frames[k].type = TRAIL_R

\* C7: in a sequence IDR, P, P, ... frame i > 0 (counted from 0) is decoded
\* with reference slot 0 = id of surface (i-1) mod 3, pic_order_cnt = i-1 and
\* RefPicList[0][0] = 0, its output surface is i mod 3, and that is the index
\* the presenter gets for it.
C7_ReferenceIsPreviousSurface ==
  IsIdrThenP =>
    /\ \A i \in 1 .. Len(frames) - 1 :
         /\ frames[i + 1].ref0_id = va_surface_id((i - 1) % NumFrameSuggested)
         /\ frames[i + 1].ref0_poc = i - 1
         /\ frames[i + 1].ref00 = 0
         /\ frames[i + 1].out = i % NumFrameSuggested
    /\ \A k \in 1 .. Len(shows) :
         shows[k].index = frames[shows[k].global].out

\* IDR, P, P, P each in a packet of its own, all decoded and shown
C7_Witness ==
  /\ IsIdrThenP
  /\ Len(frames) > NumFrameSuggested
  /\ Len(shows) = Len(frames)

(***************************************************************************)
(* Claims about the exit status and the shutdown of the process.            *)
(***************************************************************************)

\* C8: the process exits with status 0 exactly when it shuts down on an
\* interrupt or terminate request (a signal or the closing of the window)
\* and has met no failure; on every failure path the status is not 0.
C8_ExitZeroIffCleanShutdown ==
  m_pc = "exited" =>
    (exit_status = EXIT_SUCCESS <=> (failures = {} /\ requests # {}))

\* C9: once an input forwarding operation has failed, the flag is set, the
\* main thread is at the loop predicate or past the loop, poll is not called
\* again, and when the process has exited the teardown has run.
C9_ForwardFailureLeavesLoop ==
  "forward" \in failures =>
    /\ g_signal # 0
    /\ m_pc \in {"check", "rollback_context", "rollback_socket", "exited"}
    /\ ~polled_after
    /\ m_pc = "exited" => (~context_alive /\ ~sock_open)

\* a forwarding failure, then the exit with the context destroyed and the
\* socket closed
C9_Witness ==
  /\ "forward" \in failures
  /\ m_pc = "exited"
  /\ ~context_alive
  /\ ~sock_open

\* C10: once SIGINT or SIGTERM has set the flag, the event loop eventually
\* leaves and the teardown is performed.
C10_SignalLeadsToTeardown ==
  ("signal" \in requests) ~> (m_pc = "exited" /\ ~context_alive /\ ~sock_open)

\* C11: when the read from the transport returns 0 and nothing has failed,
\* the loop exits and the process terminates normally, with status 0.
C11_PeerCloseIsNormalTermination ==
  (m_pc = "exited" /\ peer_closed /\ failures = {}) =>
    exit_status = EXIT_SUCCESS

\* C12: when the process has exited after a failure, what it released is
\* what it had acquired, each resource once, in the reverse order.
C12_ReleasedInReverseOrder ==
  (m_pc = "exited" /\ failures # {}) => released = Reverse(acquired)

\* C13: within one wakeup the socket is serviced before the window events,
\* nothing is serviced twice, and once the service of the socket has failed
\* the events of that wakeup are not serviced and the loop is left.
C13_TransportBeforeEvents ==
  /\ serviced \in {<<>>, <<"sock_ok">>, <<"sock_fail">>, <<"events">>,
                   <<"sock_ok", "events">>}
  /\ (revents[1] /\ serviced # <<>>) => serviced[1] \in {"sock_ok", "sock_fail"}
  /\ (serviced = <<"sock_fail">>) =>
       m_pc \in {"rollback_context", "rollback_socket", "exited"}

\* both descriptors ready, the service of the socket failed, the process
\* exited without servicing the events
C13_Witness ==
  /\ revents = <<TRUE, TRUE>>
  /\ serviced = <<"sock_fail">>
  /\ m_pc = "exited"

(***************************************************************************)
(* Further claims about the audio ring.                                     *)
(***************************************************************************)

\* the n offsets of the region that follow offset from, around the end
RingPart(from, n) == {(from + k) % Alloc : k \in 0 .. n - 1}

\* C14: a write transfers min(n, capacity - size) bytes and a read min(n,
\* size) bytes, size being the count loaded on entry; the two memcpy calls
\* touch that many different bytes, all inside the region, the write only in
\* the free part and the read only in the filled part; and the copy and the
\* publication of a running operation never wait for the other thread.
C14_TransfersExactlyWhatFits ==
  /\ w_pc = "copied" =>
       /\ w_offset = min(Len(w_buf), w_capacity)
       /\ Cardinality(w_touched) = w_offset
       /\ w_touched \subseteq 0 .. Alloc - 1
       /\ w_touched \subseteq
            RingPart((q_write + Alloc - w_offset) % Alloc, w_capacity)
  /\ r_pc = "copied" =>
       /\ r_offset = min(r_n, r_avail)
       /\ Len(r_out) = r_offset
       /\ Cardinality(r_touched) = r_offset
       /\ r_touched \subseteq 0 .. Alloc - 1
       /\ r_touched \subseteq
            RingPart((q_read + Alloc - r_offset) % Alloc, r_avail)
  /\ w_pc = "loaded" => ENABLED WriteCopy
  /\ w_pc = "copied" => ENABLED WritePublish
  /\ r_pc = "loaded" => ENABLED ReadCopy
  /\ r_pc = "copied" => ENABLED ReadPublish

\* a write of more than fits, copied in two segments around the end
C14_Witness ==
  /\ w_pc = "copied"
  /\ 0 < w_offset
  /\ w_offset < Len(w_buf)
  /\ 0 \in w_touched
  /\ Alloc - 1 \in w_touched

\* C15 as stated: with no operation running, the byte count equals
\* (write - read) mod capacity.
C15_SizeIsIndexDifference ==
  (w_pc = "idle" /\ r_pc = "idle") =>
    q_size = (q_write + Alloc - q_read) % Alloc

\* C15: with no operation running, the byte count is congruent to
\* write - read modulo the capacity, and never more than the capacity: a full
\* ring has write = read and the count equal to the capacity.
C15_SizeCongruentToIndexDifference ==
  (w_pc = "idle" /\ r_pc = "idle") =>
    /\ q_size % Alloc = (q_write + Alloc - q_read) % Alloc
    /\ q_size \in 0 .. Alloc

\* a full ring after a read has moved the indices off 0
C15_Witness ==
  /\ w_pc = "idle"
  /\ r_pc = "idle"
  /\ q_size = Alloc
  /\ q_read # 0

\* C16: when the audio callback has queued its buffer, the buffer holds
\* requested bytes: the first k are the k bytes the read took from the ring,
\* k = min(requested, bytes available at the load), and the other
\* requested - k are zero; on an underflow the read took all that was
\* available.
C16_CallbackBufferIsRingThenZeros ==
  (r_pc = "idle" /\ e_buf # <<>>) =>
    /\ Len(e_buf) = r_n
    /\ r_offset = min(r_n, r_avail)
    /\ Take(e_buf, r_offset) = Drop(got, Len(got) - r_offset)
    /\ \A k \in r_offset + 1 .. r_n : e_buf[k] = 0
    /\ \A k \in 1 .. r_offset : e_buf[k] > 0
    /\ r_offset < r_n => r_offset = r_avail

\* an underflow: some bytes from the ring, then zeros
C16_Witness ==
  /\ r_pc = "idle"
  /\ e_buf # <<>>
  /\ 0 < r_offset
  /\ r_offset < r_n
  /\ e_buf[r_n] = 0

(***************************************************************************)
(* Claims about the input stream.                                          *)
(***************************************************************************)

\* the modifier keys among the held keys, and the others that have a code
Modifiers(keys) == {c \in keys : evdev_to_hid(c) >= FirstModifier}

Plain(keys) == {c \in keys : evdev_to_hid(c) \in 1 .. FirstModifier - 1}

\* one bit per held modifier: bit (code - 0xE0)
RECURSIVE ModifierByte(_)
ModifierByte(keys) ==
  IF Modifiers(keys) = {} THEN 0
  ELSE LET c == CHOOSE m \in Modifiers(keys) : TRUE
       IN  Pow2(evdev_to_hid(c) - FirstModifier) + ModifierByte(keys \ {c})

\* the usage codes of the held keys that are no modifiers, by evdev code
RECURSIVE UsageCodes(_)
UsageCodes(keys) ==
  IF Plain(keys) = {} THEN <<>>
  ELSE LET c == CHOOSE p \in Plain(keys) : \A q \in Plain(keys) : p <= q
       IN  <<evdev_to_hid(c)>> \o UsageCodes(keys \ {c})

Zeros(n) == [k \in 1 .. n |-> 0]

\* C17 as stated: the report is the report id 0x01, the modifier byte, a
\* reserved byte, and then the usage codes.
C17_ReservedByteAfterModifiers ==
  i_op = "format" =>
    LET report == ReportOf(i_event)
    IN  /\ Len(report) = ReportSize
        /\ report[1] = 1
        /\ report[2] = ModifierByte(key_state)
        /\ report[3] = 0

\* C17: every keyboard report is 8 bytes: the report id 0x01, the modifier
\* byte with one bit per held modifier 0xE0..0xE7, and then, with no
\* reserved byte between, the usage codes of the first six held keys that
\* are no modifiers, padded with zeros.
C17_ReportIsIdModifiersCodes ==
  i_op = "format" =>
    LET codes == UsageCodes(key_state)
        first == Take(codes, min(6, Len(codes)))
    IN  /\ Len(i_event) = InputDataOffset + ReportSize
        /\ ReportOf(i_event)
             = <<1, ModifierByte(key_state)>> \o first \o Zeros(6 - Len(first))

\* a report built with two modifiers and seven other keys held
C17_Witness ==
  /\ i_op = "format"
  /\ {KEY_LEFTCTRL, KEY_RIGHTSHIFT} \subseteq key_state
  /\ Len(UsageCodes(key_state)) = 7
  /\ ReportOf(i_event)[2] = 33
  /\ ReportOf(i_event)[3] = 4

\* C18: when the focus is lost while keys are held and the sink takes what
\* it is given, the handsoff writes a HID report whose eight bytes are all 0.
C18_HandsoffWritesZeroReport ==
  (i_op = "handsoff" /\ i_stale # {} /\ i_result) =>
    ReportOf(i_written) = Zeros(ReportSize)

\* the keys a report shows as held: a key whose modifier bit is set or
\* whose usage code is among the six code bytes
Shows(report, key) ==
  LET hid == evdev_to_hid(key)
  IN  IF hid >= FirstModifier
      THEN (report[2] \div Pow2(hid - FirstModifier)) % 2 = 1
      ELSE hid # 0 /\ \E k \in 3 .. ReportSize : report[k] = hid

\* C19: after a handsoff the keyboard state is empty, and a keyboard report
\* written later shows no key that was held at the handsoff unless that key
\* has been pressed again since.
C19_NoKeyFromBeforeHandsoff ==
  /\ i_op = "handsoff" => key_state = {}
  /\ key_state \cap i_stale = {}
  /\ (i_op = "keypress" /\ i_event # <<>>) =>
       /\ IsPrefix(i_written, i_event)
       /\ \A key \in i_stale : ~Shows(ReportOf(i_event), key)

\* after a handsoff with LCTRL and A held, S is pressed and the report of
\* that press is written in full
C19_Witness ==
  /\ i_handsoff
  /\ i_stale = {KEY_LEFTCTRL, KEY_A}
  /\ i_op = "keypress"
  /\ key_state = {KEY_S}
  /\ i_written = i_event
  /\ Shows(ReportOf(i_event), KEY_S)

\* the answers of the sink that are short writes or EINTR
IsShortOrEintr(w) == w.ret > 0 \/ (w.ret < 0 /\ w.errno = EINTR)

\* the bytes the sink is asked to take by the first n answers of a pattern
RECURSIVE Accepted(_, _)
Accepted(pattern, n) ==
  IF n = 0 THEN 0
  ELSE Accepted(pattern, n - 1) + (IF pattern[n].ret > 0 THEN pattern[n].ret ELSE 0)

\* C20: whatever short writes and EINTR results the sink answers with, Drain
\* gets every byte of the event accepted, once and in order, and returns
\* true; a write that fails with another error while bytes are left makes
\* it return false, with what was accepted before still a prefix.
C20_WrittenInFullOrFailure ==
  i_op = "drain" =>
    /\ IsPrefix(i_written, i_event)
    /\ i_result <=> i_written = i_event
    /\ (\A k \in 1 .. Len(i_pattern) : IsShortOrEintr(i_pattern[k])) => i_result
    /\ \A k \in 1 .. Len(i_pattern) :
         ( /\ i_pattern[k].ret < 0
           /\ i_pattern[k].errno # EINTR
           /\ \A j \in 1 .. k - 1 : IsShortOrEintr(i_pattern[j])
           /\ Accepted(i_pattern, k - 1) < Len(i_event) )
         => /\ ~i_result
            /\ Len(i_written) = Accepted(i_pattern, k - 1)

\* a keyboard event written in three writes around an EINTR
C20_Witness ==
  /\ i_op = "drain"
  /\ Len(i_event) = InputDataOffset + ReportSize
  /\ i_pattern = <<[ret |-> 5, errno |-> 0], [ret |-> -1, errno |-> EINTR]>>
  /\ i_written = i_event
  /\ i_result

\* the answers of the sink the specification calls transient
IsTransient(w) == w.ret > 0 \/ (w.ret < 0 /\ w.errno \in {EINTR, EAGAIN})

\* C21: a write that fails with EAGAIN is retried in place like a short
\* write or EINTR: a Drain whose sink answers only with those succeeds.
C21_EagainIsRetried ==
  (i_op = "drain" /\ \A k \in 1 .. Len(i_pattern) : IsTransient(i_pattern[k]))
    => i_result

(***************************************************************************)
(* Claims about the bit reader.                                            *)
(***************************************************************************)

\* the reader has come to the byte at index i (from 0): it returned a bit
\* of it or stepped over it
Reached(i) == nalu_offset > 8 * i

\* a bit of the byte at index i was returned
Returned(i) == \E k \in 1 .. Len(nalu_bits) : nalu_bits[k].byte = i

\* the bytes at indices i - 2, i - 1, i are 00 00 03
TripleEndsAt(i) ==
  /\ i >= 2
  /\ i < Len(nalu_data)
  /\ nalu_data[i - 1] = 0
  /\ nalu_data[i] = 0
  /\ nalu_data[i + 1] = 3

\* the value of the eight bits returned from position k on
ByteRead(k) ==
  LET v[j \in 0 .. 8] ==
        IF j = 0 THEN 0 ELSE v[j - 1] * 2 + nalu_bits[k + j - 1].bit
  IN  v[8]

\* C22: for every triple 00 00 03 strictly inside the NAL unit, that is one
\* that does not begin with the first byte of the unit, which the reader has
\* read through: no bit of the 0x03 was returned, and epb_count is the
\* number of these triples, one for each.
C22_TripleInsideIsSkippedOnce ==
  /\ \A i \in 3 .. Len(nalu_data) - 1 :
       (TripleEndsAt(i) /\ Reached(i)) => ~Returned(i)
  /\ nalu_epb_count
       = Cardinality({i \in 3 .. Len(nalu_data) - 1 : TripleEndsAt(i) /\ Reached(i)})

\* the unit 41 00 00 03 41 read to its end
C22_Witness ==
  /\ nalu_data = <<65, 0, 0, 3, 65>>
  /\ nalu_offset = 40
  /\ Len(nalu_bits) = 32
  /\ nalu_epb_count = 1

\* C23 as stated: for the unit 00 00 03 41 the first eight bits read are
\* 0x41 and epb_count is 1 afterwards.
C23_FirstEightBitsAre41 ==
  (nalu_data = <<0, 0, 3, 65>> /\ Len(nalu_bits) >= 8) =>
    /\ ByteRead(1) = 65
    /\ nalu_epb_count = 1

\* C23: the unit 00 00 03 41 is read as the four bytes 00 00 03 41 with
\* epb_count 0, its 0x03 being the third byte; with one byte before them, as
\* in 41 00 00 03 41, the bytes read are 41 00 00 41, epb_count is 1 after
\* them and BitstreamAvail is false although only 32 bits were returned.
C23_TripleAfterFirstByteElided ==
  /\ (nalu_data = <<0, 0, 3, 65>> /\ Reached(2)) => Returned(2)
  /\ (nalu_data = <<0, 0, 3, 65>> /\ Len(nalu_bits) = 32) =>
       /\ <<ByteRead(1), ByteRead(9), ByteRead(17), ByteRead(25)>> = <<0, 0, 3, 65>>
       /\ nalu_epb_count = 0
       /\ ~BitstreamAvail(nalu_offset, nalu_data)
  /\ (nalu_data = <<65, 0, 0, 3, 65>> /\ Len(nalu_bits) = 32) =>
       /\ <<ByteRead(1), ByteRead(9), ByteRead(17), ByteRead(25)>> = <<65, 0, 0, 65>>
       /\ nalu_epb_count = 1
       /\ ~BitstreamAvail(nalu_offset, nalu_data)

\* the unit 41 00 00 03 41 with its 32 bits returned
C23_Witness ==
  /\ nalu_data = <<65, 0, 0, 3, 65>>
  /\ Len(nalu_bits) = 32
  /\ ByteRead(25) = 65
  /\ ~nalu_trap

\* C29: the bytes the reader steps over are those at an index of at least 3
\* that end a triple 00 00 03 (the low 24 bits of the cache are 0x000003 and
\* the bit offset is at least 24), epb_count counts them, so that a 0x03 at
\* index 0, 1 or 2 is returned like any byte, and at a byte boundary
\* (offset >> 3) - epb_count is the number of bytes that were returned.
C29_ElidedIffTripleAtOffset24 ==
  /\ \A i \in 0 .. Len(nalu_data) - 1 :
       Reached(i) => (~Returned(i) <=> (i >= 3 /\ TripleEndsAt(i)))
  /\ nalu_epb_count
       = Cardinality({i \in 0 .. Len(nalu_data) - 1 : Reached(i) /\ ~Returned(i)})
  /\ nalu_offset % 8 = 0 =>
       SliceDataByteOffset(nalu_offset, nalu_epb_count)
         = Cardinality({i \in 0 .. Len(nalu_data) - 1 : Returned(i)})

\* a 0x03 at index 0 returned, and the one at index 3 stepped over
C29_Witness ==
  /\ nalu_data = <<3, 0, 0, 3, 65>>
  /\ nalu_offset = 40
  /\ Returned(0)
  /\ ~Returned(3)
  /\ nalu_epb_count = 1

\* C27: read_ue on the code word of k >= 0 returns k and read_se on the
\* signed code word of k returns k, the reader ending right after the word.
C27_GolombRoundTrip ==
  (nalu_input[1] # "none" /\ nalu_offset > nalu_input[3]) =>
    /\ nalu_value = nalu_input[2]
    /\ nalu_offset = nalu_input[3] + Len(CodeWord(nalu_input))
    /\ ~nalu_trap

\* the signed code word of -3, the code number 6, read after five other bits
C27_Witness ==
  /\ nalu_input = <<"se", 0 - 3, 5>>
  /\ nalu_offset = 10
  /\ nalu_value = 0 - 3

(***************************************************************************)
(* Claims about the outer reader and the decoder call.                     *)
(***************************************************************************)

\* the byte index behind span k
SpanEnd(k) == bs_spans[k].first + bs_spans[k].size

\* C28: the readers BitstreamReadNalu produces, in order, span exactly the
\* bytes between consecutive start codes, the last one up to the end of the
\* buffer: each begins right behind a start code, holds no start code, and
\* ends at the next start code or at the end, where the outer reader then
\* stands byte-aligned.  A call at an offset inside a byte, with fewer than
\* 4 bytes left or not at a start code returns false and leaves the outer
\* reader as it was.
C28_SpansBetweenStartCodes ==
  /\ \A k \in 1 .. Len(bs_spans) :
       /\ bs_spans[k].first >= Len(kStartCodePrefix)
       /\ StartCodeAt(bs_data, bs_spans[k].first - Len(kStartCodePrefix))
       /\ \A at \in bs_spans[k].first .. SpanEnd(k) - 1 : ~StartCodeAt(bs_data, at)
       /\ SpanEnd(k) = Len(bs_data) \/ StartCodeAt(bs_data, SpanEnd(k))
       /\ k > 1 => bs_spans[k].first = SpanEnd(k - 1) + Len(kStartCodePrefix)
  /\ bs_ret = "true" =>
       /\ bs_before % 8 = 0
       /\ bs_spans[Len(bs_spans)].first = bs_before \div 8 + Len(kStartCodePrefix)
       /\ bs_offset = 8 * SpanEnd(Len(bs_spans))
       /\ nalu_data = SubSeq(bs_data, bs_spans[Len(bs_spans)].first + 1,
                             SpanEnd(Len(bs_spans)))
       /\ nalu_offset = 0
  /\ bs_ret = "false" =>
       /\ bs_offset = bs_before
       /\ \/ bs_before % 8 # 0
          \/ Len(bs_data) - bs_before \div 8 < Len(kStartCodePrefix)
          \/ ~StartCodeAt(bs_data, bs_before \div 8)

\* two units cut out of a packet, the first of one byte, the second empty,
\* and the outer reader at the end
C28_Witness ==
  /\ bs_data = <<0, 0, 0, 1, 65, 0, 0, 0, 1>>
  /\ bs_spans = <<[first |-> 4, size |-> 1], [first |-> 9, size |-> 0]>>
  /\ bs_offset = 72
  /\ bs_ret = "true"

\* what the units are made to run into
Tag(name) ==
  CASE name \in {"aud", "idr", "trail"} -> "ok"
    [] name \in {"header_cut", "idr_cut", "idr_ue_cut", "idr_se_cut", "idr_epb_cut"}
         -> "trap"
    [] name \in {"bad_forbidden", "bad_layer", "bad_first", "bad_sao"} -> "assert"
    [] OTHER -> "nostart"

\* the index of the first unit that is not well-formed, 0 if there is none
FirstBad(units) ==
  IF \A k \in 1 .. Len(units) : Tag(units[k]) = "ok" THEN 0
  ELSE CHOOSE k \in 1 .. Len(units) :
         /\ Tag(units[k]) # "ok"
         /\ \A j \in 1 .. k - 1 : Tag(units[j]) = "ok"

\* the call was not ended by a failure of the accelerator
Decoded == mfx_status \notin {"none", "MFX_ERR_DEVICE_FAILED"}

\* C24: a bit read that would go past the end of the NAL unit, be it in the
\* header, in a fixed field, in read_ue, in read_se or behind a skipped
\* emulation prevention byte, ends the decoder call with the
\* unsupported-stream error at that unit: no bit comes from outside the
\* unit's bytes, the units before it were parsed, none after it is touched.
C24_ReadPastEndIsUnsupported ==
  /\ \A k \in 1 .. Len(mfx_log) :
       /\ \A j \in 1 .. Len(mfx_log[k].bits) :
            mfx_log[k].bits[j].byte < mfx_log[k].size
       /\ mfx_log[k].size = Len(UnitBytes(mfx_units[k]))
       /\ mfx_log[k].out = "trap" =>
            k = Len(mfx_log) /\ mfx_status = "MFX_ERR_UNSUPPORTED"
  /\ (Decoded /\ FirstBad(mfx_units) # 0
        /\ Tag(mfx_units[FirstBad(mfx_units)]) = "trap") =>
       /\ mfx_status = "MFX_ERR_UNSUPPORTED"
       /\ Len(mfx_log) = FirstBad(mfx_units)
       /\ mfx_log[Len(mfx_log)].out = "trap"
       /\ \A k \in 1 .. Len(mfx_log) - 1 : mfx_log[k].out = "ok"

\* a picture is submitted, then the next unit ends behind a skipped
\* emulation prevention byte
C24_Witness ==
  /\ mfx_units = <<"idr", "idr_epb_cut">>
  /\ mfx_status = "MFX_ERR_UNSUPPORTED"
  /\ mfx_log[1].submitted
  /\ mfx_log[2].out = "trap"

\* C25: when a fixed field of a NAL unit header or of a slice header does
\* not have its required value, the decoder call returns the
\* unsupported-stream error, as it does for a read past the end.
C25_FixedFieldIsUnsupported ==
  (Decoded /\ FirstBad(mfx_units) # 0
     /\ Tag(mfx_units[FirstBad(mfx_units)]) = "assert") =>
    mfx_status = "MFX_ERR_UNSUPPORTED"

\* C26: MFXVideoDECODE_Init runs, and a picture is submitted, only after
\* MFXVideoDECODE_DecodeHeader has parsed a PPS.
C26_InitOnlyAfterPps ==
  /\ \A k \in 1 .. Len(inits) : inits[k]
  /\ frames # <<>> => pps_parsed

\* C30: an IDR slice is submitted with the local counter reset: picture
\* order count 0, every reference frame invalid, every RefPicList entry
\* 0xff, and the local counter is 1 after it; the global counter goes on
\* counting every picture since the session was made.
C30_IdrResetsLocalCounter ==
  \A k \in 1 .. Len(frames) :
    /\ frames[k].global = k
    /\ frames[k].type = IDR_W_RADL =>
         /\ frames[k].curr_poc = 0
         /\ frames[k].local = 1
         /\ \A i \in 0 .. NumReferenceFrames - 1 :
              frames[k].refs[i] = VA_INVALID_SURFACE
         /\ \A i \in 0 .. NumRefPicLists - 1 :
              \A j \in 0 .. NumReferenceFrames - 1 :
                frames[k].list[i][j] = RefPicUnused
         /\ frames[k].ref0_id = VA_INVALID_SURFACE
         /\ frames[k].ref00 = RefPicUnused

\* an IDR slice is the third picture, after the local counter came to 2
C30_Witness ==
  /\ Len(frames) >= 3
  /\ frames[2].local = 2
  /\ frames[3].type = IDR_W_RADL
  /\ frames[3].curr_poc = 0
  /\ frames[3].global = 3

(***************************************************************************)
(* Claims about what the decoder skips, shows, counts and releases.        *)
(***************************************************************************)

\* the packet without its NAL units of a type nothing handles
WithoutOther(nalus) == SelectSeq(nalus, LAMBDA t : t # AUD_NUT)

\* the session as MFXVideoDECODE_DecodeFrameAsync finds it
SessionNow ==
  [global |-> global_frame_counter, local |-> local_frame_counter,
   ppb |-> ppb, ref00 |-> spb_ref00, frames |-> frames,
   refs |-> <<>>, list |-> <<>>,
   out |-> NoSurface, status |-> "MFX_ERR_NONE", nslice |-> 0]

\* C31: a NAL unit of a type the parser does not handle is skipped without
\* a change: from every state the decoder can be called in, a packet and the
\* same packet without such units leave the same session, the same pictures
\* and the same rest behind the header, and a packet of such units only
\* leaves the session as it was.
C31_OtherTypesAreSkipped ==
  dec_status = "running" =>
    \A nalus \in PacketsUpTo(MaxNalus) :
      /\ \A failAt \in {0, 1} :
           DecodeFrameAsync(SessionNow, nalus, failAt)
             = DecodeFrameAsync(SessionNow, WithoutOther(nalus), failAt)
      /\ DecodeHeaderRest(WithoutOther(nalus)) = WithoutOther(DecodeHeaderRest(nalus))
      /\ HasPps(WithoutOther(nalus)) = HasPps(nalus)
      /\ WithoutOther(nalus) = <<>> =>
           DecodeFrameAsync(SessionNow, nalus, 0) = SessionNow

\* a packet of an access unit delimiter and one slice was decoded and shown
\* after another picture
C31_Witness ==
  /\ last_call.other
  /\ dec_status = "running"
  /\ last_call.global >= 1
  /\ global_frame_counter = last_call.global + 1
  /\ Len(shows) >= 2

\* C33: after each successful decode the surface shown is the one locked
\* surface of the pool.
C33_ShownIsTheLockedSurface ==
  (dec_status = "running" /\ shows # <<>>) =>
    \A i \in 0 .. NumFrameSuggested - 1 :
      locked[i] <=> i = shows[Len(shows)].index

\* C37: MFXVideoDECODE_DecodeFrameAsync does not return success with the
\* output surface unset, so the caller does not read through a null
\* surface_out.
C37_SuccessSetsOutput == last_call.site # "surface_out"

\* C38 as stated: a submission that fails leaves both counters at the
\* values they had before it.
C38_FailedKeepsCounters ==
  dec_status = "running" =>
    \A nal \in {TRAIL_R, IDR_W_RADL} :
      /\ DecodeFrameAsync(SessionNow, <<nal>>, 1).global = global_frame_counter
      /\ DecodeFrameAsync(SessionNow, <<nal>>, 1).local = local_frame_counter

\* C38: a submission that fails increments neither counter and one that
\* succeeds increments both by exactly one: the global counter is the
\* number of pictures submitted with success, every picture leaves the
\* local counter one above the picture order count it was submitted with,
\* and after a failure the local counter is the picture order count of the
\* failed submission, 0 for an IDR slice, whose reset is not undone.
C38_CountersCountSuccesses ==
  /\ dec_status = "running" =>
       \A nal \in {TRAIL_R, IDR_W_RADL} :
         /\ DecodeFrameAsync(SessionNow, <<nal>>, 1).global = global_frame_counter
         /\ DecodeFrameAsync(SessionNow, <<nal>>, 1).local
              = LocalAtSlice(nal, local_frame_counter)
         /\ DecodeFrameAsync(SessionNow, <<nal>>, 0).global = global_frame_counter + 1
         /\ DecodeFrameAsync(SessionNow, <<nal>>, 0).local
              = LocalAtSlice(nal, local_frame_counter) + 1
  /\ global_frame_counter = Len(frames)
  /\ \A k \in 1 .. Len(frames) : frames[k].local = frames[k].curr_poc + 1
  /\ last_call.upload_failed =>
       /\ local_frame_counter = ppb.curr_poc
       /\ global_frame_counter - last_call.global \in 0 .. MaxNalus - 1

\* the upload of an IDR slice fails after two pictures: the global counter
\* stays, the local counter is left at 0
C38_Witness ==
  /\ last_call.upload_failed
  /\ last_call.local = 2
  /\ global_frame_counter = last_call.global
  /\ local_frame_counter = 0

C36_PoolIsFreedOnce ==
  (dec_status = "closed" /\ surfaces_ok) =>
    /\ free_calls = 1
    /\ \A i \in 0 .. NumFrameSuggested - 1 : destroyed[i] = 1

\* the buffers a sequence of accelerator calls names with the operation op,
\* in the order of the calls
BuffersOf(calls, op) == SelectSeq(calls, LAMBDA c : c.op = op)

Reversed(q) == [i \in 1 .. Len(q) |-> q[Len(q) + 1 - i]]

\* C32: whichever step of UploadAndDecode fails, every buffer it created is
\* destroyed exactly once before it returns, the last created first, no
\* call follows the first vaDestroyBuffer but vaDestroyBuffer, and it
\* returns false exactly when a step failed, which is when the decoder
\* reports MFX_ERR_DEVICE_FAILED.
C32_BuffersAreRolledBack ==
  LET made == BuffersOf(va_log.calls, "vaCreateBuffer")
      gone == BuffersOf(va_log.calls, "vaDestroyBuffer")
  IN  /\ Len(gone) = Len(made)
      /\ \A i \in 1 .. Len(gone) : gone[i].buf = Reversed(made)[i].buf
      /\ \A i, j \in 1 .. Len(made) : made[i].buf = made[j].buf => i = j
      /\ \A i \in 1 .. Len(va_log.calls) - Len(gone) :
           va_log.calls[i].op # "vaDestroyBuffer"
      /\ va_log.ok <=> va_log.failed = 0
      /\ last_call.upload_failed => ~va_log.ok
      /\ (last_call.site = "none" /\ ~last_call.upload_failed) => va_log.ok

\* vaRenderPicture failed: three buffers were created and destroyed and the
\* decoder has failed
C32_Witness ==
  /\ va_log.failed = 5
  /\ Len(va_log.calls) = 7
  /\ dec_status = "failed"
  /\ last_call.upload_failed

\* C34: a key or button event that finds its bit at the reported value
\* writes nothing, one that changes the state hands one report to the sink,
\* and after a key event that changed the state the bit of word
\* evdev_code >> 6, bit evdev_code & 63 has the reported value.
C34_EventChangesItsOwnBit ==
  /\ (i_op \in {"keypress", "mousebutton"} /\ i_event = <<>>) => i_written = <<>>
  /\ (i_op = "keypress" /\ i_event # <<>>) =>
       /\ i_event = KeyboardEvent(key_state)
       /\ i_key.code \in key_state <=> i_key.pressed
  /\ (i_op = "mousebutton" /\ i_event # <<>>) =>
       /\ i_event = MouseEvent(button_state)
       /\ ButtonShift(i_key.code) \in button_state <=> i_key.pressed

(***************************************************************************)
(* Claims about the order and the alignment of the bytes in the ring.      *)
(***************************************************************************)

\* C35: in every interleaving the bytes the reads have returned, followed by
\* the bytes a running read has already copied out, are the first bytes of
\* the accepted parts of the writes that have published, in order and each
\* once: none is lost, doubled, reordered, or read before its write has
\* added it to the byte count.
C35_ReadsFollowPublishedWrites ==
  /\ IsPrefix(IF r_pc = "copied" THEN got \o r_out ELSE got, accepted)
  /\ \A i, j \in 1 .. Len(got) : got[i] = got[j] => i = j
  /\ Len(got) = bytesR
  /\ Len(accepted) = bytesW

\* a read has copied bytes out while a write is between its copy and its
\* publication, after an earlier write was truncated and a read returned
C35_Witness ==
  /\ r_pc = "copied"
  /\ r_out # <<>>
  /\ w_pc = "copied"
  /\ w_offset > 0
  /\ got # <<>>
  /\ Len(accepted) < Len(passed) - Len(w_buf)

\* C40: for every stride that divides the capacity and the size of every
\* write and read request made so far, the byte count, the read index and
\* the write index are multiples of the stride, and so is what each write
\* and read transferred, truncated or not.
C40_IndicesStayOnTheStride ==
  \A stride \in 1 .. Alloc :
    q_stride % stride = 0 =>
      /\ q_size % stride = 0
      /\ q_read % stride = 0
      /\ q_write % stride = 0
      /\ w_offset % stride = 0
      /\ r_offset % stride = 0
      /\ Len(accepted) % stride = 0
      /\ Len(got) % stride = 0

\* with a stride of two bytes: a write of four bytes was cut to two by the
\* overflow, and a read of four bytes has come back with two
C40_Witness ==
  /\ q_stride = 2
  /\ Len(passed) = 6
  /\ Len(accepted) = 4
  /\ w_pc = "idle"
  /\ r_pc = "returned"
  /\ r_n = 4
  /\ r_offset = 2
  /\ Len(got) = 4

====
